---- MODULE Spec2Model ----
(***************************************************************************)
(* Model of the CSPS / pay analysis code: utils.py (validation, cleaning,  *)
(* filter_pivot_data) and the statements of analyse_pay.py that cut,       *)
(* rename, reconcile and join the survey and pay tables.                   *)
(*                                                                         *)
(* A long-format table (a pandas DataFrame) is a set of rows; a row is a   *)
(* record of its columns.  An optional argument is None (the empty         *)
(* sequence) or Some(x) (the one-element sequence <<x>>); a numeric cell   *)
(* is NaN (the empty sequence), <<v>> for the number v, or <<s, n>> for    *)
(* the non-integral mean s/n.                                              *)
(***************************************************************************)
EXTENDS Integers, Sequences, FiniteSets, TLC

VARIABLES
    df,          \* the survey table (the table handed to the function under call)
    args,        \* the arguments of the call; in the script, the analysis followed
    pc,          \* "ready" / "done" around a call; in the script, the next statement
    ret,         \* what the last call did: a returned table or a raised error
    pay,         \* analyse_pay.py: df_pay_cleaned
    csps_pivot,  \* analyse_pay.py: the survey-side wide table of the analysis
    pay_cut,     \* analyse_pay.py: the pay-side cut of the analysis
    joined       \* analyse_pay.py: the merged table of the analysis

vars == <<df, args, pc, ret, pay, csps_pivot, pay_cut, joined>>
scriptVars == <<pay, csps_pivot, pay_cut, joined>>

----------------------------------------------------------------------------
(* Bounds of the model *)

MaxRows == 2        \* rows in an input table of filter_pivot_data and of the script
MaxCheckRows == 4   \* rows in an input table of the validator

----------------------------------------------------------------------------
(* Values *)

None == <<>>
Some(x) == <<x>>
IsNone(a) == a = <<>>
Get(a) == a[1]

NaN == <<>>
Num(v) == <<v>>
isna(c) == c = <<>>

(* The sample values the tables are drawn from.  An organisation has one   *)
(* organisation type; the type of OrgB is drawn with the table.            *)
NoType == "<NA>"
Organisations == {"OrgA", "OrgB"}
TypesOfOrgB == {"Ministerial department", "Executive agency", NoType}
OrganisationType(o, typeB) == IF o = "OrgB" THEN typeB ELSE "Ministerial department"
Years == {2023, 2024}
Labels == {"Employee Engagement Index", "Pay and benefits"}
Values == {NaN, Num(60), Num(70)}

(* One row of the cleaned survey table: the columns filter_pivot_data reads. *)
SurveyRow(o, t, y, l, v) ==
    ("Organisation" :> o) @@ ("Organisation type" :> t) @@ ("Year" :> y)
        @@ ("Label" :> l) @@ ("Value" :> v)

SurveyRows(typeB) ==
    {SurveyRow(o, OrganisationType(o, typeB), y, l, v) :
        o \in Organisations, y \in Years, l \in Labels, v \in Values}

(* One row of the cleaned pay table (one grade band). *)
PayRow(o, t, y, v) ==
    ("Organisation" :> o) @@ ("Organisation type" :> t) @@ ("Year" :> y)
        @@ ("Median salary" :> v)

RECURSIVE TablesFrom(_, _)
(* The tables of at most n rows over a universe of rows. *)
TablesFrom(rows, n) ==
    IF n = 0 THEN {{}}
    ELSE LET smaller == TablesFrom(rows, n - 1)
         IN smaller \cup {t \cup {r} : t \in smaller, r \in rows}

----------------------------------------------------------------------------
(* pandas.DataFrame.pivot_table(index, columns="Label", values="Value")    *)
(* with its defaults aggfunc="mean" and dropna=True.                       *)

RECURSIVE SumValues(_)
SumValues(rows) ==
    IF rows = {} THEN 0
    ELSE LET r == CHOOSE x \in rows : TRUE
         IN r["Value"][1] + SumValues(rows \ {r})

(* The mean of the non-missing Values of a group of rows; NaN when there   *)
(* is none.                                                                *)
Mean(rows) ==
    LET present == {r \in rows : ~isna(r["Value"])}
        n == Cardinality(present)
        s == SumValues(present)
    IN IF n = 0 THEN NaN
       ELSE IF s % n = 0 THEN Num(s \div n)
       ELSE <<s, n>>

(* groupby drops the rows that have a missing value in a key column. *)
HasMissingKey(r, index) ==
    "Organisation type" \in index /\ r["Organisation type"] = NoType

IndexKey(r, index) == [c \in index |-> r[c]]

(* pivot_table called with fill_value=0: every missing cell becomes 0. *)
pivot_table_fill_value(d, index) ==
    LET grouped == {r \in d : ~HasMissingKey(r, index)}
        group(k, l) == {r \in grouped : IndexKey(r, index) = k /\ r["Label"] = l}
        keys == {<<IndexKey(r, index), r["Label"]>> : r \in grouped}
        agged == {g \in keys : ~isna(Mean(group(g[1], g[2])))}
        idx == {g[1] : g \in agged}
        cols == {g[2] : g \in agged}
    IN [index |-> idx,
        columns |-> cols,
        cell |-> [k \in idx, l \in cols |->
                     IF <<k, l>> \in agged THEN Mean(group(k, l)) ELSE Num(0)]]

pivot_table(d, index) ==
    LET grouped == {r \in d : ~HasMissingKey(r, index)}
        group(k, l) == {r \in grouped : IndexKey(r, index) = k /\ r["Label"] = l}
        keys == {<<IndexKey(r, index), r["Label"]>> : r \in grouped}
        \* agged.dropna(how="all"): a group whose mean is missing goes
        agged == {g \in keys : ~isna(Mean(group(g[1], g[2])))}
        idx == {g[1] : g \in agged}
        cols == {g[2] : g \in agged}
    IN [index |-> idx,
        columns |-> cols,
        cell |-> [k \in idx, l \in cols |->
                     IF <<k, l>> \in agged THEN Mean(group(k, l)) ELSE NaN]]

----------------------------------------------------------------------------
(* utils.filter_pivot_data *)

Raise(error, message, filtered) ==
    [raised |-> TRUE, error |-> error, message |-> message,
     df_filtered |-> filtered]

Return(table, filtered) ==
    [raised |-> FALSE, df_pivot |-> table, df_filtered |-> filtered]

(* "df[col].isin(lst) if lst else False": an absent or empty list matches  *)
(* no row.                                                                 *)
InIfGiven(x, lst) == IF IsNone(lst) \/ Get(lst) = {} THEN FALSE ELSE x \in Get(lst)

(* The year filter written so that an included organisation escapes it. *)
FilterRows_include_any_year(d, a) ==
    LET byYear ==
            IF IsNone(a.year_filter) THEN d
            ELSE {r \in d : \/ r["Year"] \in Get(a.year_filter)
                            \/ InIfGiven(r["Organisation"], a.include_orgs)}
        byType ==
            IF IsNone(a.organisation_type_filter) THEN byYear
            ELSE {r \in byYear :
                    \/ r["Organisation type"] \in Get(a.organisation_type_filter)
                    \/ InIfGiven(r["Organisation"], a.include_orgs)}
        byOrganisation ==
            IF IsNone(a.organisation_filter) THEN byType
            ELSE {r \in byType :
                    \/ r["Organisation"] \in Get(a.organisation_filter)
                    \/ InIfGiven(r["Organisation"], a.include_orgs)}
    IN IF IsNone(a.exclude_orgs) \/ Get(a.exclude_orgs) = {} THEN byOrganisation
       ELSE {r \in byOrganisation : r["Organisation"] \notin Get(a.exclude_orgs)}

(* The exclusion written so that an included organisation escapes it. *)
FilterRows_include_overrides(d, a) ==
    LET byYear ==
            IF IsNone(a.year_filter) THEN d
            ELSE {r \in d : r["Year"] \in Get(a.year_filter)}
        byType ==
            IF IsNone(a.organisation_type_filter) THEN byYear
            ELSE {r \in byYear :
                    \/ r["Organisation type"] \in Get(a.organisation_type_filter)
                    \/ InIfGiven(r["Organisation"], a.include_orgs)}
        byOrganisation ==
            IF IsNone(a.organisation_filter) THEN byType
            ELSE {r \in byType :
                    \/ r["Organisation"] \in Get(a.organisation_filter)
                    \/ InIfGiven(r["Organisation"], a.include_orgs)}
    IN IF IsNone(a.exclude_orgs) \/ Get(a.exclude_orgs) = {} THEN byOrganisation
       ELSE {r \in byOrganisation :
                \/ r["Organisation"] \notin Get(a.exclude_orgs)
                \/ InIfGiven(r["Organisation"], a.include_orgs)}

FilterRows(d, a) ==
    LET byYear ==
            IF IsNone(a.year_filter) THEN d
            ELSE {r \in d : r["Year"] \in Get(a.year_filter)}
        byType ==
            IF IsNone(a.organisation_type_filter) THEN byYear
            ELSE {r \in byYear :
                    \/ r["Organisation type"] \in Get(a.organisation_type_filter)
                    \/ InIfGiven(r["Organisation"], a.include_orgs)}
        byOrganisation ==
            IF IsNone(a.organisation_filter) THEN byType
            ELSE {r \in byType :
                    \/ r["Organisation"] \in Get(a.organisation_filter)
                    \/ InIfGiven(r["Organisation"], a.include_orgs)}
    IN IF IsNone(a.exclude_orgs) \/ Get(a.exclude_orgs) = {} THEN byOrganisation
       ELSE {r \in byOrganisation : r["Organisation"] \notin Get(a.exclude_orgs)}

(* The second branch tested on organisation_filter alone: a call with      *)
(* neither filter falls into the per-organisation pivot.                   *)
filter_pivot_data_neither_pivots(d, a) ==
    IF d = {} THEN Raise("ValueError", "DataFrame is empty", {})
    ELSE LET df_filtered == FilterRows(d, a)
             preserve_columns ==
                 IF IsNone(a.preserve_columns) THEN {} ELSE Get(a.preserve_columns)
         IN IF df_filtered = {}
            THEN Raise("ValueError", "No data remains after applying filters", {})
            ELSE IF ~IsNone(a.organisation_filter) /\ IsNone(a.year_filter)
            THEN Return(pivot_table(df_filtered, {"Year"} \cup preserve_columns),
                        df_filtered)
            ELSE IF IsNone(a.organisation_filter)
            THEN Return(pivot_table(df_filtered, {"Organisation"} \cup preserve_columns),
                        df_filtered)
            ELSE Raise("ValueError",
                       "Must specify either year_filter OR organisation_filter (but not both or neither)",
                       df_filtered)

(* The check for an empty filtered table left out. *)
filter_pivot_data_no_empty_check(d, a) ==
    IF d = {} THEN Raise("ValueError", "DataFrame is empty", {})
    ELSE LET df_filtered == FilterRows(d, a)
             preserve_columns ==
                 IF IsNone(a.preserve_columns) THEN {} ELSE Get(a.preserve_columns)
         IN IF ~IsNone(a.organisation_filter) /\ IsNone(a.year_filter)
            THEN Return(pivot_table(df_filtered, {"Year"} \cup preserve_columns),
                        df_filtered)
            ELSE IF IsNone(a.organisation_filter) /\ ~IsNone(a.year_filter)
            THEN Return(pivot_table(df_filtered, {"Organisation"} \cup preserve_columns),
                        df_filtered)
            ELSE Raise("ValueError",
                       "Must specify either year_filter OR organisation_filter (but not both or neither)",
                       df_filtered)

filter_pivot_data(d, a) ==
    IF d = {} THEN Raise("ValueError", "DataFrame is empty", {})
    ELSE LET df_filtered == FilterRows(d, a)
             preserve_columns ==
                 IF IsNone(a.preserve_columns) THEN {} ELSE Get(a.preserve_columns)
         IN IF df_filtered = {}
            THEN Raise("ValueError", "No data remains after applying filters", {})
            ELSE IF ~IsNone(a.organisation_filter) /\ IsNone(a.year_filter)
            THEN Return(pivot_table(df_filtered, {"Year"} \cup preserve_columns),
                        df_filtered)
            ELSE IF IsNone(a.organisation_filter) /\ ~IsNone(a.year_filter)
            THEN Return(pivot_table(df_filtered, {"Organisation"} \cup preserve_columns),
                        df_filtered)
            ELSE Raise("ValueError",
                       "Must specify either year_filter OR organisation_filter (but not both or neither)",
                       df_filtered)

----------------------------------------------------------------------------
(* analyse_pay.py: the pay-side cuts, written in the script as boolean     *)
(* masks over df_pay_cleaned.  year is None for the all-years cut.         *)

PayOrganisationCut(d, year, conditions, summary) ==
    {r \in d :
        /\ IsNone(year) \/ r["Year"] = Get(year)
        /\ r["Organisation"] # summary
        /\ r["Organisation"] \notin conditions.exclude_orgs}

PayDeptCut(d, year, conditions, summary) ==
    {r \in d :
        /\ IsNone(year) \/ r["Year"] = Get(year)
        /\ r["Organisation"] # summary
        /\ \/ r["Organisation type"] \in conditions.organisation_type_filter
           \/ r["Organisation"] \in conditions.include_orgs
        /\ r["Organisation"] \notin conditions.exclude_orgs}

----------------------------------------------------------------------------
(* Specification Spec: one call of filter_pivot_data, or one evaluation of *)
(* the pay-side department cut, on any table of at most MaxRows rows with  *)
(* any combination of the optional arguments.                              *)

YearFilters == {None, Some({2024}), Some(Years)}
OrganisationFilters == {None, Some({"OrgB"}), Some(Organisations)}
OrganisationTypeFilters == {None, Some({"Ministerial department"})}
IncludeLists == {None, Some({"OrgB"})}
ExcludeLists == {None, Some({"OrgB"})}
PreserveLists == {None, Some({"Organisation type"})}

PivotArgs ==
    [function : {"filter_pivot_data"},
     year_filter : YearFilters,
     organisation_type_filter : OrganisationTypeFilters,
     organisation_filter : OrganisationFilters,
     exclude_orgs : ExcludeLists,
     include_orgs : IncludeLists,
     preserve_columns : PreserveLists]

PayRows(typeB) ==
    {PayRow(o, OrganisationType(o, typeB), y, v) :
        o \in Organisations \cup {"All employees"}, y \in Years, v \in Values}

PayCutArgs ==
    [function : {"pay_dept_cut"},
     year : {None, Some(2024)},
     organisation_type_filter : {{"Ministerial department"}},
     include_orgs : {{}, {"OrgB"}},
     exclude_orgs : {{}, {"OrgB"}}]

NoReturn == [raised |-> FALSE, pending |-> TRUE]

Init ==
    /\ \E typeB \in TypesOfOrgB :
          \/ /\ df \in TablesFrom(SurveyRows(typeB), MaxRows)
             /\ args \in PivotArgs
          \/ /\ df \in TablesFrom(PayRows(typeB), MaxRows)
             /\ args \in PayCutArgs
    /\ pc = "ready"
    /\ ret = NoReturn
    /\ pay = {} /\ csps_pivot = {} /\ pay_cut = {} /\ joined = {}

CallFilterPivotData ==
    /\ pc = "ready"
    /\ args.function = "filter_pivot_data"
    /\ ret' = filter_pivot_data(df, args)
    /\ pc' = "done"
    /\ UNCHANGED <<df, args, scriptVars>>

CallPayDeptCut ==
    /\ pc = "ready"
    /\ args.function = "pay_dept_cut"
    /\ ret' = [raised |-> FALSE,
               df_pay_dept |-> PayDeptCut(df, args.year, args, "All employees")]
    /\ pc' = "done"
    /\ UNCHANGED <<df, args, scriptVars>>

Next == CallFilterPivotData \/ CallPayDeptCut

Spec == Init /\ [][Next]_vars

----------------------------------------------------------------------------
(* Properties of filter_pivot_data, checked under Spec *)

Called == pc = "done" /\ args.function = "filter_pivot_data"

BothOrNeither == IsNone(args.year_filter) = IsNone(args.organisation_filter)

(* The index columns of the pivot the call asks for. *)
SelectedIndex ==
    (IF IsNone(args.year_filter) THEN {"Year"} ELSE {"Organisation"})
        \cup (IF IsNone(args.preserve_columns) THEN {} ELSE Get(args.preserve_columns))

Excluded(o) == ~IsNone(args.exclude_orgs) /\ o \in Get(args.exclude_orgs)

(* A row passes the year, organisation-type, organisation and exclude      *)
(* filters of the call.                                                    *)
Survives(r) ==
    /\ IsNone(args.year_filter) \/ r["Year"] \in Get(args.year_filter)
    /\ \/ IsNone(args.organisation_type_filter)
       \/ r["Organisation type"] \in Get(args.organisation_type_filter)
       \/ (~IsNone(args.include_orgs) /\ r["Organisation"] \in Get(args.include_orgs))
    /\ \/ IsNone(args.organisation_filter)
       \/ r["Organisation"] \in Get(args.organisation_filter)
       \/ (~IsNone(args.include_orgs) /\ r["Organisation"] \in Get(args.include_orgs))
    /\ ~Excluded(r["Organisation"])

DuplicateKeys(rows, index) ==
    \E r1, r2 \in rows :
        /\ r1 # r2
        /\ IndexKey(r1, index) = IndexKey(r2, index)
        /\ r1["Label"] = r2["Label"]

(* C1: a call on a non-empty table with both year_filter and               *)
(* organisation_filter, or with neither, ends in a raised error.           *)
C1_BothOrNeitherRaises ==
    (Called /\ df # {} /\ BothOrNeither) => ret.raised

C1_Witness ==
    /\ Called /\ df # {} /\ BothOrNeither
    /\ ret.raised /\ ret.df_filtered # {}
    /\ ~IsNone(args.organisation_type_filter) /\ ~IsNone(args.preserve_columns)

(* C2 (the claim as stated): when two surviving rows share group key and   *)
(* Label, the call ends in an error; it returns no table whose cell is an  *)
(* aggregate of their Values.  Stated for rows that both have a Value.     *)
C2_DuplicateKeysRaise ==
    (/\ Called /\ ~BothOrNeither
     /\ DuplicateKeys({r \in df : Survives(r) /\ ~isna(r["Value"])}, SelectedIndex))
        => ret.raised

(* C6: no row of an excluded organisation contributes to the output: the   *)
(* rows pivoted (or kept by the pay-side department cut) hold no excluded  *)
(* organisation, and the outcome is the one the call has on the table      *)
(* without the excluded organisations' rows.                               *)
C6_ExcludedNeverContributes ==
    /\ Called =>
         LET without == {r \in df : ~Excluded(r["Organisation"])}
             other == filter_pivot_data(without, args)
         IN /\ \A r \in ret.df_filtered : ~Excluded(r["Organisation"])
            /\ ret.raised = other.raised
            /\ ~ret.raised =>
                 /\ ret.df_pivot = other.df_pivot
                 /\ "Organisation" \in SelectedIndex =>
                      \A k \in ret.df_pivot.index : ~Excluded(k["Organisation"])
    /\ (pc = "done" /\ args.function = "pay_dept_cut") =>
         \A r \in ret.df_pay_dept : r["Organisation"] \notin args.exclude_orgs

C6_Witness ==
    /\ Called /\ ~ret.raised
    /\ \E r \in df :
         /\ Excluded(r["Organisation"])
         /\ ~IsNone(args.include_orgs) /\ r["Organisation"] \in Get(args.include_orgs)
         /\ ~IsNone(args.organisation_type_filter)
         /\ r["Organisation type"] \in Get(args.organisation_type_filter)
         /\ ~isna(r["Value"])

(* C7: if no row survives the filters the call raises; it returns no table. *)
C7_NoSurvivorRaises ==
    (Called /\ \A r \in df : ~Survives(r)) =>
        ret.raised /\ ret.error = "ValueError"

C7_Witness ==
    /\ Called /\ df # {} /\ ~BothOrNeither
    /\ \A r \in df : ~Survives(r)
    /\ ret.raised /\ ret.message = "No data remains after applying filters"

(* The wide table melted back to long form, and the triples of the rows    *)
(* that were pivoted.                                                      *)
Melt(table) ==
    {[key |-> k, Label |-> l, Value |-> table.cell[k, l]] :
        k \in table.index, l \in table.columns}

Triples(rows, index) ==
    {[key |-> IndexKey(r, index), Label |-> r["Label"], Value |-> r["Value"]] :
        r \in rows}

UniquePivot ==
    Called /\ ~ret.raised /\ ~DuplicateKeys(ret.df_filtered, SelectedIndex)

(* C8 (the claim as stated): with unique (group key, Label) pairs the      *)
(* melted wide table is exactly the set of original triples.               *)
C8_RoundTripExact ==
    UniquePivot => Melt(ret.df_pivot) = Triples(ret.df_filtered, SelectedIndex)

(* C8 (amended): with unique (group key, Label) pairs, the melted wide     *)
(* table without its missing cells is exactly the set of original triples  *)
(* that have a Value and no missing group-key component.                   *)
C8_RoundTripPresent ==
    UniquePivot =>
        {t \in Melt(ret.df_pivot) : ~isna(t.Value)}
            = {t \in Triples({r \in ret.df_filtered :
                                 ~("Organisation type" \in SelectedIndex
                                   /\ r["Organisation type"] = NoType)},
                             SelectedIndex) : ~isna(t.Value)}

C8_Witness ==
    /\ UniquePivot
    /\ \E r \in ret.df_filtered : isna(r["Value"])
    /\ Cardinality(ret.df_pivot.index) = 1
    /\ Cardinality(ret.df_pivot.columns) = 1
    /\ Cardinality(ret.df_filtered) = 2

----------------------------------------------------------------------------
(* analyse_pay.py: constants *)

CSPS_MEDIAN_ORGANISATION_NAME == "Civil Service benchmark"
CSPS_MEAN_ORGANISATION_NAME == "All employees"
PAY_SUMMARY_ORGANISATION_NAME == "All employees"
EEI_LABEL == "Employee Engagement Index"

CSPS_ORGANISATION_ONLY_CONDITIONS ==
    [exclude_orgs |->
        {"Scotland, Wales and Northern Ireland Offices, and the Office of the Advocate General for Scotland",
         "HM Prison and Probation Service (excluding HM Prison Service and National Probation Service/Probation Service)",
         "HM Prison Service",
         "Probation Service",
         "HM Inspectorate of Constabulary and Fire and Rescue Services"}]

PAY_ORGANISATION_ONLY_CONDITIONS ==
    [exclude_orgs |->
        {"Office of the Secretary of State for Scotland",
         "Office of the Secretary of State for Wales",
         "Northern Ireland Office",
         "HM Prison and Probation Service",
         "Security and Intelligence Services",
         "Central Civil Service Fast Stream",
         "Defence Electronics and Components Agency",
         "Government Commercial Organisation",
         "Office for Budget Responsibility",
         "Queen Elizabeth II Centre",
         "Royal Fleet Auxiliary",
         "UK Supreme Court",
         "Education and Skills Funding Agency",
         "Standards and Testing Agency",
         "Teaching Regulation Agency"}]

CSPS_DEPT_ONLY_CONDITIONS ==
    [organisation_type_filter |-> {"Ministerial department"},
     exclude_orgs |-> {"Attorney General's Office",
                       "Export Credits Guarantee Department"},
     include_orgs |-> {"Department for Education group (including agencies)",
                       "HM Revenue and Customs"}]

PAY_DEPT_ONLY_CONDITIONS ==
    [organisation_type_filter |-> {"Ministerial department"},
     exclude_orgs |-> {"Attorney General's Office",
                       "Export Credits Guarantee Department",
                       "Office of the Secretary of State for Scotland",
                       "Office of the Secretary of State for Wales",
                       "Northern Ireland Office"},
     include_orgs |-> {"HM Revenue and Customs"}]

CSPS_ORGANISATION_RENAMINGS ==
    ("Ministry of Housing, Communities & Local Government - 2024 iteration"
        :> "Ministry of Housing, Communities & Local Government")
    @@ ("Department for Education group (including agencies)"
        :> "Department for Education/Department for Education group")

PAY_ORGANISATION_RENAMINGS ==
    ("Ministry of Housing, Communities & Local Government - 2024 iteration"
        :> "Ministry of Housing, Communities & Local Government")
    @@ ("Department for Education"
        :> "Department for Education/Department for Education group")
    @@ ("Medicines and Healthcare Products Regulatory Agency"
        :> "Medicines and Healthcare products Regulatory Agency")

----------------------------------------------------------------------------
(* analyse_pay.py: the five analyses.  The script interleaves them stage   *)
(* by stage (survey cuts, pay cuts, renaming, matching checks, joins); the *)
(* statements of one analysis read only what its own earlier statements    *)
(* wrote, and the model follows one analysis through the stages.           *)

Analyses == {"median", "organisation", "dept", "organisation_panel", "dept_panel"}
CrossSections == {"organisation", "dept"}
Panels == {"organisation_panel", "dept_panel"}

CspsAverages == {CSPS_MEDIAN_ORGANISATION_NAME, CSPS_MEAN_ORGANISATION_NAME}

(* The arguments of the script's five filter_pivot_data calls. *)
CspsCutArgs(analysis) ==
    LET absent == [year_filter |-> None, organisation_type_filter |-> None,
                   organisation_filter |-> None, exclude_orgs |-> None,
                   include_orgs |-> None, preserve_columns |-> None]
        organisationOnly ==
            [absent EXCEPT
                !.exclude_orgs =
                    Some(CspsAverages \cup CSPS_ORGANISATION_ONLY_CONDITIONS.exclude_orgs),
                !.preserve_columns = Some({"Organisation type"})]
        deptOnly ==
            [absent EXCEPT
                !.organisation_type_filter =
                    Some(CSPS_DEPT_ONLY_CONDITIONS.organisation_type_filter),
                !.exclude_orgs =
                    Some(CspsAverages \cup CSPS_DEPT_ONLY_CONDITIONS.exclude_orgs),
                !.include_orgs = Some(CSPS_DEPT_ONLY_CONDITIONS.include_orgs),
                !.preserve_columns = Some({"Organisation type"})]
    IN CASE analysis = "median" ->
                [absent EXCEPT
                    !.organisation_filter = Some({CSPS_MEDIAN_ORGANISATION_NAME})]
         [] analysis = "organisation" ->
                [organisationOnly EXCEPT !.year_filter = Some({2024})]
         [] analysis = "dept" ->
                [deptOnly EXCEPT !.year_filter = Some({2024})]
         [] analysis = "organisation_panel" -> organisationOnly
         [] analysis = "dept_panel" -> deptOnly

(* The survey-side cut of an analysis, on raw organisation names. *)
CspsCut_renamed_first(d, analysis) ==
    filter_pivot_data(
        {[r EXCEPT !["Organisation"] =
            IF @ \in DOMAIN CSPS_ORGANISATION_RENAMINGS
            THEN CSPS_ORGANISATION_RENAMINGS[@] ELSE @] : r \in d},
        CspsCutArgs(analysis))

CspsCut(d, analysis) == filter_pivot_data(d, CspsCutArgs(analysis))

(* A table after reset_index: each row keeps its index label, so that two  *)
(* rows stay two rows when renaming makes their cells equal.               *)
WideRows(table) ==
    {[index |-> k,
      row |-> k @@ [l \in table.columns |-> table.cell[k, l]]] :
        k \in table.index}

IndexedRows(rows) == {[index |-> r, row |-> r] : r \in rows}

(* df[["Year", "Median salary"]] and the like. *)
Project(x, columns) == [x EXCEPT !.row = [c \in columns |-> x.row[c]]]

(* The pay-side cut of an analysis, on raw organisation names. *)
PayCut(p, analysis) ==
    CASE analysis = "median" ->
            {Project(x, {"Year", "Median salary"}) :
                x \in IndexedRows({r \in p :
                        r["Organisation"] = PAY_SUMMARY_ORGANISATION_NAME})}
      [] analysis = "organisation" ->
            IndexedRows(PayOrganisationCut(p, Some(2025),
                PAY_ORGANISATION_ONLY_CONDITIONS, PAY_SUMMARY_ORGANISATION_NAME))
      [] analysis = "dept" ->
            IndexedRows(PayDeptCut(p, Some(2025),
                PAY_DEPT_ONLY_CONDITIONS, PAY_SUMMARY_ORGANISATION_NAME))
      [] analysis = "organisation_panel" ->
            IndexedRows(PayOrganisationCut(p, None,
                PAY_ORGANISATION_ONLY_CONDITIONS, PAY_SUMMARY_ORGANISATION_NAME))
      [] analysis = "dept_panel" ->
            IndexedRows(PayDeptCut(p, None,
                PAY_DEPT_ONLY_CONDITIONS, PAY_SUMMARY_ORGANISATION_NAME))

(* Series.replace(mapping) on the Organisation column. *)
Replace(o, mapping) == IF o \in DOMAIN mapping THEN mapping[o] ELSE o

RenameOrganisations(rows, mapping) ==
    {[x EXCEPT !.row["Organisation"] = Replace(@, mapping)] : x \in rows}

OrganisationsOf(rows) == {x.row["Organisation"] : x \in rows}

(* An error that names one missing item only. *)
AssertionError_first_item(message, missing) ==
    [raised |-> TRUE, error |-> "AssertionError", message |-> message,
     missing |-> {CHOOSE x \in missing : TRUE}]

AssertionError(message, missing) ==
    [raised |-> TRUE, error |-> "AssertionError", message |-> message,
     missing |-> missing]

Passed == [raised |-> FALSE]

CspsMissingMessage(analysis) ==
    IF analysis = "dept" THEN "CSPS departments missing from pay data"
    ELSE "CSPS organisations missing from pay data"

PayMissingMessage(analysis) ==
    IF analysis = "dept" THEN "Pay departments missing from CSPS data"
    ELSE "Pay organisations missing from CSPS data"

(* The one-sided check a single assert would make. *)
CheckOrganisationsMatched_one_sided(csps_organisations, pay_organisations, analysis) ==
    LET csps_missing == csps_organisations \ pay_organisations
    IN IF csps_missing # {}
       THEN AssertionError(CspsMissingMessage(analysis), csps_missing)
       ELSE Passed

(* The two asserts on the one-sided set differences. *)
CheckOrganisationsMatched(csps_organisations, pay_organisations, analysis) ==
    LET csps_missing == csps_organisations \ pay_organisations
        pay_missing == pay_organisations \ csps_organisations
    IN IF csps_missing # {}
       THEN AssertionError(CspsMissingMessage(analysis), csps_missing)
       ELSE IF pay_missing # {}
       THEN AssertionError(PayMissingMessage(analysis), pay_missing)
       ELSE Passed

(* The survey year left as it is. *)
ShiftYear_same_year(x) == x

(* pivot.assign(Year=pivot["Year"] + 1) *)
ShiftYear(x) == [x EXCEPT !.row["Year"] = @ + 1]

(* left.merge(right, on=keys, how="inner"): one row per matching pair. *)
InnerMerge(left, right, keys) ==
    {[left |-> l.index, right |-> r.index, row |-> l.row @@ r.row] :
        <<l, r>> \in {m \in left \X right :
                        \A c \in keys : m[1].row[c] = m[2].row[c]}}

JoinPayCsps(cut, pivot, analysis) ==
    CASE analysis = "median" ->
            InnerMerge({Project(x, {"Year", "Median salary"}) : x \in cut},
                       {ShiftYear(x) : x \in pivot}, {"Year"})
      [] analysis \in CrossSections ->
            InnerMerge({Project(x, {"Organisation", "Median salary"}) : x \in cut},
                       pivot, {"Organisation"})
      [] analysis \in Panels ->
            InnerMerge({Project(x, {"Organisation", "Year", "Median salary"}) : x \in cut},
                       {ShiftYear(x) : x \in pivot}, {"Organisation", "Year"})

----------------------------------------------------------------------------
(* Specification SpecPay: analyse_pay.py from the cleaned tables on. *)

CspsSampleOrganisations ==
    {"Department for Education group (including agencies)",
     "Attorney General's Office",
     CSPS_MEDIAN_ORGANISATION_NAME}

PaySampleOrganisations ==
    {"Department for Education",
     "Attorney General's Office",
     PAY_SUMMARY_ORGANISATION_NAME}

SampleOrganisationType(o) ==
    CASE o \in {"Department for Education", "Attorney General's Office"} ->
            "Ministerial department"
      [] o = "Department for Education group (including agencies)" ->
            "Departmental group"
      [] OTHER -> NoType

CspsSampleRows ==
    {SurveyRow(o, SampleOrganisationType(o), y, EEI_LABEL, v) :
        o \in CspsSampleOrganisations, y \in {2023, 2024}, v \in {NaN, Num(70)}}

PaySampleRows ==
    {PayRow(o, SampleOrganisationType(o), y, v) :
        o \in PaySampleOrganisations, y \in {2024, 2025}, v \in {NaN, Num(35000)}}

InitPay ==
    /\ df \in TablesFrom(CspsSampleRows, MaxRows)
    /\ pay \in TablesFrom(PaySampleRows, MaxRows)
    /\ args \in [analysis : Analyses]
    /\ pc = "pivot"
    /\ ret = NoReturn
    /\ csps_pivot = {} /\ pay_cut = {} /\ joined = {}

(* utils.filter_pivot_data(df_csps_eei_ts, ...) for the analysis. *)
PivotCsps ==
    /\ pc = "pivot"
    /\ ret' = CspsCut(df, args.analysis)
    /\ IF ret'.raised
       THEN pc' = "failed" /\ UNCHANGED csps_pivot
       ELSE pc' = "cut" /\ csps_pivot' = WideRows(ret'.df_pivot)
    /\ UNCHANGED <<df, args, pay, pay_cut, joined>>

CutPay ==
    /\ pc = "cut"
    /\ pay_cut' = PayCut(pay, args.analysis)
    /\ pc' = IF args.analysis = "median" THEN "join" ELSE "rename"
    /\ UNCHANGED <<df, args, ret, pay, csps_pivot, joined>>

Rename ==
    /\ pc = "rename"
    /\ csps_pivot' = RenameOrganisations(csps_pivot, CSPS_ORGANISATION_RENAMINGS)
    /\ pay_cut' = RenameOrganisations(pay_cut, PAY_ORGANISATION_RENAMINGS)
    /\ pc' = IF args.analysis \in CrossSections THEN "check" ELSE "join"
    /\ UNCHANGED <<df, args, ret, pay, joined>>

CheckMatched ==
    /\ pc = "check"
    /\ ret' = CheckOrganisationsMatched(OrganisationsOf(csps_pivot),
                                        OrganisationsOf(pay_cut), args.analysis)
    /\ pc' = IF ret'.raised THEN "failed" ELSE "join"
    /\ UNCHANGED <<df, args, pay, csps_pivot, pay_cut, joined>>

Join ==
    /\ pc = "join"
    /\ joined' = JoinPayCsps(pay_cut, csps_pivot, args.analysis)
    /\ pc' = "done"
    /\ UNCHANGED <<df, args, ret, pay, csps_pivot, pay_cut>>

NextPay == PivotCsps \/ CutPay \/ Rename \/ CheckMatched \/ Join

SpecPay == InitPay /\ [][NextPay]_vars

----------------------------------------------------------------------------
(* Properties of the pay analysis, checked under SpecPay *)

CspsOrganisations == OrganisationsOf(csps_pivot)
PayOrganisations == OrganisationsOf(pay_cut)

(* C3: the cross-sectional analyses reach the join only with equal         *)
(* organisation sets on the two sides; otherwise the run has stopped with  *)
(* an error that names a non-empty one-sided difference.                   *)
C3_JoinOnlyWhenMatched ==
    args.analysis \in CrossSections =>
        /\ pc \in {"join", "done"} => CspsOrganisations = PayOrganisations
        /\ (pc = "failed" /\ ret.error = "AssertionError") =>
             /\ ret.missing # {}
             /\ joined = {}
             /\ \/ /\ ret.message = CspsMissingMessage(args.analysis)
                   /\ ret.missing = CspsOrganisations \ PayOrganisations
                \/ /\ ret.message = PayMissingMessage(args.analysis)
                   /\ ret.missing = PayOrganisations \ CspsOrganisations

C3_Witness ==
    /\ args.analysis = "dept" /\ pc = "done" /\ joined # {}
    /\ \E x \in csps_pivot : x.index["Organisation"] # x.row["Organisation"]
    /\ \E x \in pay_cut : x.index["Organisation"] # x.row["Organisation"]

(* Every row of either side appears in the merged table. *)
Lossless ==
    /\ \A x \in pay_cut : \E j \in joined : j.left = x.index
    /\ \A x \in csps_pivot : \E j \in joined : j.right = x.index

(* C4: every join of the pay analysis (median time series, the two cross-  *)
(* sections, the two panels) follows a check of equal key sets and so      *)
(* keeps every row of both sides.                                          *)
C4_EveryJoinLossless ==
    (pc = "done" /\ csps_pivot # {} /\ pay_cut # {}) => Lossless

(* The two cross-sectional joins do follow a passed matching check and     *)
(* keep every row of both sides.                                           *)
CrossSectionJoinsLossless ==
    (pc = "done" /\ args.analysis \in CrossSections) =>
        /\ ret = Passed
        /\ CspsOrganisations = PayOrganisations
        /\ Lossless

(* The lists of an analysis, applied to an organisation name and type. *)
CspsListsPass(analysis, o, t) ==
    /\ o \notin CspsAverages
    /\ IF analysis = "organisation"
       THEN o \notin CSPS_ORGANISATION_ONLY_CONDITIONS.exclude_orgs
       ELSE /\ o \notin CSPS_DEPT_ONLY_CONDITIONS.exclude_orgs
            /\ \/ t \in CSPS_DEPT_ONLY_CONDITIONS.organisation_type_filter
               \/ o \in CSPS_DEPT_ONLY_CONDITIONS.include_orgs

PayListsPass(analysis, o, t) ==
    /\ o # PAY_SUMMARY_ORGANISATION_NAME
    /\ IF analysis = "organisation"
       THEN o \notin PAY_ORGANISATION_ONLY_CONDITIONS.exclude_orgs
       ELSE /\ o \notin PAY_DEPT_ONLY_CONDITIONS.exclude_orgs
            /\ \/ t \in PAY_DEPT_ONLY_CONDITIONS.organisation_type_filter
               \/ o \in PAY_DEPT_ONLY_CONDITIONS.include_orgs

Renamed == args.analysis \in CrossSections /\ pc \in {"check", "join", "done"}

(* C5 (the claim as stated): the rows that survive on each side are those  *)
(* whose renamed organisation name passes the lists.                       *)
C5_ListsMatchRenamedNames ==
    Renamed =>
        /\ \A x \in csps_pivot :
             CspsListsPass(args.analysis, x.row["Organisation"],
                           x.row["Organisation type"])
        /\ \A x \in pay_cut :
             PayListsPass(args.analysis, x.row["Organisation"],
                          x.row["Organisation type"])

(* C5 (amended): on each side the lists are matched against the original   *)
(* organisation names, and the rename mapping is applied to the surviving  *)
(* rows afterwards, before the matching check.                             *)
C5_ListsMatchOriginalNamesThenRename ==
    Renamed =>
        /\ \A x \in csps_pivot :
             /\ CspsListsPass(args.analysis, x.index["Organisation"],
                              x.index["Organisation type"])
             /\ x.row["Organisation"] =
                    Replace(x.index["Organisation"], CSPS_ORGANISATION_RENAMINGS)
        /\ \A r \in df :
             (/\ r["Year"] = 2024 /\ ~isna(r["Value"])
              /\ r["Organisation type"] # NoType
              /\ CspsListsPass(args.analysis, r["Organisation"], r["Organisation type"]))
                => \E x \in csps_pivot : x.index["Organisation"] = r["Organisation"]
        /\ \A x \in pay_cut :
             /\ x.index \in pay /\ x.index["Year"] = 2025
             /\ PayListsPass(args.analysis, x.index["Organisation"],
                             x.index["Organisation type"])
             /\ x.row["Organisation"] =
                    Replace(x.index["Organisation"], PAY_ORGANISATION_RENAMINGS)
        /\ \A r \in pay :
             (r["Year"] = 2025
              /\ PayListsPass(args.analysis, r["Organisation"], r["Organisation type"]))
                => \E x \in pay_cut : x.index = r

C5_Witness ==
    /\ Renamed /\ args.analysis = "dept" /\ pc = "check"
    /\ \E x \in csps_pivot :
         /\ x.index["Organisation"] \in CSPS_DEPT_ONLY_CONDITIONS.include_orgs
         /\ x.row["Organisation"] \notin CSPS_DEPT_ONLY_CONDITIONS.include_orgs
    /\ \E x \in pay_cut : x.index["Organisation"] # x.row["Organisation"]

(* C9 (the claim as stated): the panel cuts, called with neither           *)
(* year_filter nor organisation_filter, return a table (keyed by           *)
(* organisation and year) whenever rows survive their filters.             *)
C9_PanelCutsReturnTable ==
    (/\ args.analysis \in Panels /\ pc # "pivot"
     /\ \E r \in df : CspsListsPass(IF args.analysis = "organisation_panel"
                                    THEN "organisation" ELSE "dept",
                                    r["Organisation"], r["Organisation type"]))
        => ~ret.raised /\ pc # "failed"

----------------------------------------------------------------------------
(* utils.check_csps_data *)

YearRange(min_year, max_year) == min_year..max_year

(* One row of the raw survey table: the columns check_csps_data reads. *)
RawRow(y, g, o, t, l) ==
    ("Year" :> y) @@ ("Departmental group" :> g) @@ ("Organisation" :> o)
        @@ ("Organisation type" :> t) @@ ("Label" :> l)

Unique(d, column) == {r[column] : r \in d}

(* The mean benchmark required in every year of the range. *)
check_csps_data_mean_every_year(d, a) ==
    LET years == YearRange(a.csps_min_year, a.csps_max_year)
        years_missing == {y \in years : y \notin Unique(d, "Year")}
        dept_groups_missing ==
            {g \in a.dept_groups_to_drop : g \notin Unique(d, "Departmental group")}
        orgs_to_drop_missing ==
            {o \in a.orgs_to_drop : o \notin Unique(d, "Organisation")}
        org_types_missing ==
            {t \in a.dept_only_conditions.organisation_type_filter :
                t \notin Unique(d, "Organisation type")}
        orgs_missing ==
            {o \in a.dept_only_conditions.include_orgs
                     \cup a.dept_only_conditions.exclude_orgs :
                o \notin Unique(d, "Organisation")}
        df_year(y) == {r \in d : r["Year"] = y}
        median_missing ==
            {y \in years :
                a.csps_median_organisation_name \notin Unique(df_year(y), "Organisation")}
        mean_missing ==
            {y \in years :
                a.csps_mean_organisation_name \notin Unique(df_year(y), "Organisation")}
        eei_ts_missing ==
            {<<y, l>> \in years \X ({a.eei_label} \cup a.ts_labels) :
                l \notin Unique(df_year(y), "Label")}
    IN IF years_missing # {}
       THEN AssertionError("Not all years are present", years_missing)
       ELSE IF dept_groups_missing # {}
       THEN AssertionError("Some departmental groups to drop are not present",
                           dept_groups_missing)
       ELSE IF orgs_to_drop_missing # {}
       THEN AssertionError("Some organisations to drop are not present",
                           orgs_to_drop_missing)
       ELSE IF org_types_missing # {}
       THEN AssertionError("Some organisation types for department-only analysis are not present",
                           org_types_missing)
       ELSE IF orgs_missing # {}
       THEN AssertionError("Some organisations for department-only analysis are not present",
                           orgs_missing)
       ELSE IF median_missing # {}
       THEN AssertionError("Median missing for years", median_missing)
       ELSE IF mean_missing # {}
       THEN AssertionError("Mean missing for years", mean_missing)
       ELSE IF eei_ts_missing # {}
       THEN AssertionError("EEI and theme scores missing for years", eei_ts_missing)
       ELSE Passed

(* The asserts in source order: the first that fails raises. *)
check_csps_data(d, a) ==
    LET years == YearRange(a.csps_min_year, a.csps_max_year)
        years_missing == {y \in years : y \notin Unique(d, "Year")}
        dept_groups_missing ==
            {g \in a.dept_groups_to_drop : g \notin Unique(d, "Departmental group")}
        orgs_to_drop_missing ==
            {o \in a.orgs_to_drop : o \notin Unique(d, "Organisation")}
        org_types_missing ==
            {t \in a.dept_only_conditions.organisation_type_filter :
                t \notin Unique(d, "Organisation type")}
        orgs_missing ==
            {o \in a.dept_only_conditions.include_orgs
                     \cup a.dept_only_conditions.exclude_orgs :
                o \notin Unique(d, "Organisation")}
        df_year(y) == {r \in d : r["Year"] = y}
        median_missing ==
            {y \in years :
                a.csps_median_organisation_name \notin Unique(df_year(y), "Organisation")}
        mean_missing ==
            {y \in years :
                /\ y >= a.csps_mean_min_year
                /\ a.csps_mean_organisation_name \notin Unique(df_year(y), "Organisation")}
        eei_ts_missing ==
            {<<y, l>> \in years \X ({a.eei_label} \cup a.ts_labels) :
                l \notin Unique(df_year(y), "Label")}
    IN IF years_missing # {}
       THEN AssertionError("Not all years are present", years_missing)
       ELSE IF dept_groups_missing # {}
       THEN AssertionError("Some departmental groups to drop are not present",
                           dept_groups_missing)
       ELSE IF orgs_to_drop_missing # {}
       THEN AssertionError("Some organisations to drop are not present",
                           orgs_to_drop_missing)
       ELSE IF org_types_missing # {}
       THEN AssertionError("Some organisation types for department-only analysis are not present",
                           org_types_missing)
       ELSE IF orgs_missing # {}
       THEN AssertionError("Some organisations for department-only analysis are not present",
                           orgs_missing)
       ELSE IF median_missing # {}
       THEN AssertionError("Median missing for years", median_missing)
       ELSE IF mean_missing # {}
       THEN AssertionError("Mean missing for years", mean_missing)
       ELSE IF eei_ts_missing # {}
       THEN AssertionError("EEI and theme scores missing for years", eei_ts_missing)
       ELSE Passed

----------------------------------------------------------------------------
(* utils.check_pay_data *)

(* One row of the raw pay table: the columns check_pay_data reads. *)
RawPayRow(y, g, o, t, grade) ==
    ("Year" :> y) @@ ("Departmental group" :> g) @@ ("Organisation" :> o)
        @@ ("Organisation type" :> t) @@ ("Grade" :> grade)

(* f"'{pay_summary_grade_name}' Grade missing for years" *)
GradeMissingMessage(pay_summary_grade_name) ==
    IF pay_summary_grade_name = "All employees"
    THEN "'All employees' Grade missing for years"
    ELSE "'SEO/HEO' Grade missing for years"

(* The asserts of check_pay_data in source order, each with its message    *)
(* and the list it prints.                                                 *)
PayChecks(d, a) ==
    LET years == YearRange(a.pay_min_year, a.pay_max_year)
        df_year(y) == {r \in d : r["Year"] = y}
    IN << [message |-> "Not all years are present",
           missing |-> {y \in years : y \notin Unique(d, "Year")}],
          [message |-> "Some departmental groups to drop are not present",
           missing |-> {g \in a.dept_groups_to_drop :
                            g \notin Unique(d, "Departmental group")}],
          [message |-> "Some organisation types for department-only analysis are not present",
           missing |-> {t \in a.dept_only_conditions.organisation_type_filter :
                            t \notin Unique(d, "Organisation type")}],
          [message |-> "Some organisations for department-only analysis are not present",
           missing |-> {o \in a.dept_only_conditions.include_orgs
                                \cup a.dept_only_conditions.exclude_orgs :
                            o \notin Unique(d, "Organisation")}],
          [message |-> "Overall figures missing for years",
           missing |-> {y \in years :
                            a.pay_summary_organisation_name
                                \notin Unique(df_year(y), "Organisation")}],
          [message |-> GradeMissingMessage(a.pay_summary_grade_name),
           missing |-> {<<y, g>> \in years \X {a.pay_summary_grade_name} :
                            g \notin Unique(df_year(y), "Grade")}] >>

(* The last failing assert reported instead of the first. *)
FirstFailure_last(checks) ==
    LET failing == {i \in DOMAIN checks : checks[i].missing # {}}
    IN IF failing = {} THEN Passed
       ELSE LET i == CHOOSE k \in failing : \A j \in failing : j <= k
            IN AssertionError(checks[i].message, checks[i].missing)

(* Asserts run in order: the first that fails raises, the rest never run. *)
FirstFailure(checks) ==
    LET failing == {i \in DOMAIN checks : checks[i].missing # {}}
    IN IF failing = {} THEN Passed
       ELSE LET i == CHOOSE k \in failing : \A j \in failing : k <= j
            IN AssertionError(checks[i].message, checks[i].missing)

check_pay_data(d, a) == FirstFailure(PayChecks(d, a))

----------------------------------------------------------------------------
(* Specification SpecCheck: one call of check_csps_data or check_pay_data  *)
(* on any raw table of at most MaxCheckRows rows, for a choice of the      *)
(* expectations.                                                           *)

RawSampleOrganisations ==
    {CSPS_MEDIAN_ORGANISATION_NAME, CSPS_MEAN_ORGANISATION_NAME, "OrgA", "OrgB"}

RawDepartmentalGroup(o) ==
    CASE o = "OrgA" -> "Scot Gov"
      [] o = "OrgB" -> "Welsh Gov"
      [] OTHER -> "Cabinet Office"

RawOrganisationType(o) ==
    CASE o = "OrgA" -> "Ministerial department"
      [] o = "OrgB" -> "Executive agency"
      [] OTHER -> NoType

RawSampleRows ==
    {RawRow(y, RawDepartmentalGroup(o), o, RawOrganisationType(o), l) :
        y \in Years, o \in RawSampleOrganisations, l \in Labels}

CheckArgs ==
    [function : {"check_csps_data"},
     csps_min_year : Years,
     csps_max_year : {2024},
     csps_mean_min_year : Years,
     dept_groups_to_drop : {{"Scot Gov"}, {"Scot Gov", "Welsh Gov"}},
     orgs_to_drop : {{}, {"OrgA"}},
     dept_only_conditions :
        [organisation_type_filter : {{"Ministerial department"}},
         include_orgs : {{}, {"OrgB"}},
         exclude_orgs : {{"OrgA"}}],
     csps_median_organisation_name : {CSPS_MEDIAN_ORGANISATION_NAME},
     csps_mean_organisation_name : {CSPS_MEAN_ORGANISATION_NAME},
     eei_label : {EEI_LABEL},
     ts_labels : {{"Pay and benefits"}}]

RawPaySampleOrganisations == {PAY_SUMMARY_ORGANISATION_NAME, "OrgA", "OrgB"}

Grades == {"All employees", "SEO/HEO"}

RawPaySampleRows ==
    {RawPayRow(y, RawDepartmentalGroup(o), o, RawOrganisationType(o), g) :
        y \in Years, o \in RawPaySampleOrganisations, g \in Grades}

CheckPayArgs ==
    [function : {"check_pay_data"},
     pay_min_year : Years,
     pay_max_year : {2024},
     dept_groups_to_drop : {{"Scot Gov"}, {"Scot Gov", "Welsh Gov"}},
     dept_only_conditions :
        [organisation_type_filter : {{"Ministerial department"}},
         include_orgs : {{}, {"OrgB"}},
         exclude_orgs : {{"OrgA"}}],
     pay_summary_organisation_name : {PAY_SUMMARY_ORGANISATION_NAME},
     pay_summary_grade_name : Grades]

InitCheck ==
    /\ \/ /\ df \in TablesFrom(RawSampleRows, MaxCheckRows)
          /\ args \in CheckArgs
          /\ pay = {}
       \/ /\ pay \in TablesFrom(RawPaySampleRows, MaxCheckRows)
          /\ args \in CheckPayArgs
          /\ df = {}
    /\ pc = "ready"
    /\ ret = NoReturn
    /\ csps_pivot = {} /\ pay_cut = {} /\ joined = {}

CallCheckCspsData ==
    /\ pc = "ready"
    /\ args.function = "check_csps_data"
    /\ ret' = check_csps_data(df, args)
    /\ pc' = "done"
    /\ UNCHANGED <<df, args, scriptVars>>

CallCheckPayData ==
    /\ pc = "ready"
    /\ args.function = "check_pay_data"
    /\ ret' = check_pay_data(pay, args)
    /\ pc' = "done"
    /\ UNCHANGED <<df, args, scriptVars>>

NextCheck == CallCheckCspsData \/ CallCheckPayData

SpecCheck == InitCheck /\ [][NextCheck]_vars

----------------------------------------------------------------------------
(* Properties of check_csps_data, checked under SpecCheck *)

Occurs(column, value) == \E r \in df : r[column] = value
OccursInYear(column, value, y) ==
    \E r \in df : r["Year"] = y /\ r[column] = value

(* The expectations of the call, as the contract lists them. *)
ExpectationsMet ==
    LET range == args.csps_min_year..args.csps_max_year
    IN /\ \A y \in range : Occurs("Year", y)
       /\ \A g \in args.dept_groups_to_drop : Occurs("Departmental group", g)
       /\ \A o \in args.orgs_to_drop : Occurs("Organisation", o)
       /\ \A t \in args.dept_only_conditions.organisation_type_filter :
            Occurs("Organisation type", t)
       /\ \A o \in args.dept_only_conditions.include_orgs : Occurs("Organisation", o)
       /\ \A o \in args.dept_only_conditions.exclude_orgs : Occurs("Organisation", o)
       /\ \A y \in range :
            OccursInYear("Organisation", args.csps_median_organisation_name, y)
       /\ \A y \in range :
            y >= args.csps_mean_min_year =>
                OccursInYear("Organisation", args.csps_mean_organisation_name, y)
       /\ \A y \in range :
            /\ OccursInYear("Label", args.eei_label, y)
            /\ \A l \in args.ts_labels : OccursInYear("Label", l, y)

(* C10: check_csps_data returns without error exactly when every           *)
(* expectation is met; otherwise it fails with an AssertionError.          *)
C10_ReturnsIffExpectationsMet ==
    (pc = "done" /\ args.function = "check_csps_data") =>
        /\ ret.raised = ~ExpectationsMet
        /\ ret.raised => ret.error = "AssertionError"

C10_Witness ==
    /\ pc = "done" /\ args.function = "check_csps_data"
    /\ ~ret.raised
    /\ args.csps_min_year = 2023 /\ args.csps_mean_min_year = 2024
    /\ ~OccursInYear("Organisation", args.csps_mean_organisation_name, 2023)


(* The table a validator call reads, and its year range. *)
CheckedTable == IF args.function = "check_pay_data" THEN pay ELSE df
CheckedYears ==
    IF args.function = "check_pay_data"
    THEN {y \in Years : args.pay_min_year <= y /\ y <= args.pay_max_year}
    ELSE {y \in Years : args.csps_min_year <= y /\ y <= args.csps_max_year}

Absent(column, value) == \A r \in CheckedTable : r[column] # value
AbsentInYear(column, value, y) ==
    \A r \in CheckedTable : r["Year"] = y => r[column] # value

(* The check categories of each validator, in the order of its asserts. *)
CheckCategories ==
    IF args.function = "check_pay_data"
    THEN <<"years", "departmental groups", "organisation types",
           "department-only organisations", "overall", "grade">>
    ELSE <<"years", "departmental groups", "organisations to drop",
           "organisation types", "department-only organisations",
           "median", "mean", "labels">>

CategoryMessage(category) ==
    CASE category = "years" -> "Not all years are present"
      [] category = "departmental groups" ->
            "Some departmental groups to drop are not present"
      [] category = "organisations to drop" ->
            "Some organisations to drop are not present"
      [] category = "organisation types" ->
            "Some organisation types for department-only analysis are not present"
      [] category = "department-only organisations" ->
            "Some organisations for department-only analysis are not present"
      [] category = "median" -> "Median missing for years"
      [] category = "mean" -> "Mean missing for years"
      [] category = "labels" -> "EEI and theme scores missing for years"
      [] category = "overall" -> "Overall figures missing for years"
      [] category = "grade" -> GradeMissingMessage(args.pay_summary_grade_name)

(* Every expected item of a category that the table lacks. *)
MissingItems(category) ==
    CASE category = "years" -> {y \in CheckedYears : Absent("Year", y)}
      [] category = "departmental groups" ->
            {g \in args.dept_groups_to_drop : Absent("Departmental group", g)}
      [] category = "organisations to drop" ->
            {o \in args.orgs_to_drop : Absent("Organisation", o)}
      [] category = "organisation types" ->
            {t \in args.dept_only_conditions.organisation_type_filter :
                Absent("Organisation type", t)}
      [] category = "department-only organisations" ->
            {o \in args.dept_only_conditions.include_orgs
                     \cup args.dept_only_conditions.exclude_orgs :
                Absent("Organisation", o)}
      [] category = "median" ->
            {y \in CheckedYears :
                AbsentInYear("Organisation", args.csps_median_organisation_name, y)}
      [] category = "mean" ->
            {y \in CheckedYears :
                /\ y >= args.csps_mean_min_year
                /\ AbsentInYear("Organisation", args.csps_mean_organisation_name, y)}
      [] category = "labels" ->
            {<<y, l>> \in CheckedYears \X ({args.eei_label} \cup args.ts_labels) :
                AbsentInYear("Label", l, y)}
      [] category = "overall" ->
            {y \in CheckedYears :
                AbsentInYear("Organisation", args.pay_summary_organisation_name, y)}
      [] category = "grade" ->
            {<<y, g>> \in CheckedYears \X {args.pay_summary_grade_name} :
                AbsentInYear("Grade", g, y)}

Categories == {CheckCategories[i] : i \in DOMAIN CheckCategories}
Reported(category) == ret.raised /\ ret.message = CategoryMessage(category)

(* C11: a failing validator call names a category and lists exactly the    *)
(* complete set of that category's missing items: every missing item, and  *)
(* no item that is present.                                                *)
C11_ErrorListsAllMissing ==
    (pc = "done" /\ ret.raised) =>
        \E c \in Categories :
            /\ ret.message = CategoryMessage(c)
            /\ ret.missing = MissingItems(c)
            /\ ret.missing # {}

C11_Witness ==
    /\ pc = "done" /\ Reported("labels")
    /\ Cardinality(ret.missing) >= 2
    /\ \E p \in CheckedYears \X ({args.eei_label} \cup args.ts_labels) :
         p \notin ret.missing

(* C12: check_csps_data requires the median benchmark in every year of the *)
(* range and the mean benchmark only in the years from csps_mean_min_year  *)
(* on; a year below csps_mean_min_year without the mean benchmark is never *)
(* reported and never makes the call fail.                                 *)
C12_MeanFromItsOwnMinYear ==
    (pc = "done" /\ args.function = "check_csps_data") =>
        /\ (\E y \in CheckedYears :
                AbsentInYear("Organisation", args.csps_median_organisation_name, y))
             => ret.raised
        /\ (\E y \in CheckedYears :
                /\ y >= args.csps_mean_min_year
                /\ AbsentInYear("Organisation", args.csps_mean_organisation_name, y))
             => ret.raised
        /\ Reported("mean") =>
             /\ ret.missing # {}
             /\ \A y \in ret.missing : y >= args.csps_mean_min_year
        /\ (\A y \in CheckedYears :
                y >= args.csps_mean_min_year =>
                    ~AbsentInYear("Organisation", args.csps_mean_organisation_name, y))
             => ~Reported("mean")

C12_Witness ==
    /\ pc = "done" /\ args.function = "check_csps_data"
    /\ args.csps_min_year = 2023 /\ args.csps_mean_min_year = 2024
    /\ AbsentInYear("Organisation", args.csps_mean_organisation_name, 2023)
    /\ Reported("mean") /\ ret.missing = {2024}

(* C13 (the claim as stated): every category that has missing items is     *)
(* reported, whether or not another category fails too.                    *)
C13_EveryFailingCategoryReported ==
    pc = "done" =>
        \A c \in Categories : MissingItems(c) # {} => Reported(c)

(* C13 (amended): the categories are checked in a fixed order and the call *)
(* stops at the first that fails; a category is reported exactly when it   *)
(* has missing items and no category before it has any.                    *)
C13_FirstFailingCategoryReported ==
    pc = "done" =>
        \A i \in DOMAIN CheckCategories :
            Reported(CheckCategories[i]) <=>
                /\ MissingItems(CheckCategories[i]) # {}
                /\ \A j \in 1..(i - 1) : MissingItems(CheckCategories[j]) = {}

C13_Witness ==
    /\ pc = "done" /\ args.function = "check_pay_data"
    /\ Reported("years")
    /\ MissingItems("overall") # {}
    /\ MissingItems("grade") # {}

----------------------------------------------------------------------------
(* utils.edit_csps_data and utils.edit_pay_data *)

(* A cell of dtype object that holds a string. *)
Str(text) == <<"object", "str", text>>
IsStr(c) == Len(c) = 3
Text(c) == c[3]

(* The strings pd.to_numeric parses, with the number each stands for. *)
NumericText == {"70", "35000"}
ParseText(text) == IF text = "70" THEN 70 ELSE 35000

(* pd.to_numeric(series) with errors="raise": numbers and missing cells    *)
(* pass, a numeric string becomes its number, any other string raises.     *)
Parses(c) == IsStr(c) => Text(c) \in NumericText
to_numeric(c) == IF IsStr(c) THEN Num(ParseText(Text(c))) ELSE c

(* One row of the raw survey table. *)
RawSurveyRow(section, y, g, o, t, l, v) ==
    ("Section" :> section) @@ ("Year" :> y) @@ ("Departmental group" :> g)
        @@ ("Organisation" :> o) @@ ("Organisation type" :> t)
        @@ ("Label" :> l) @@ ("Value" :> v)

(* One row of the raw pay table. *)
RawSalaryRow(grade, y, g, o, t, v) ==
    ("Grade" :> grade) @@ ("Year" :> y) @@ ("Departmental group" :> g)
        @@ ("Organisation" :> o) @@ ("Organisation type" :> t)
        @@ ("Median salary" :> v)

(* The frames a call holds: "df" is the caller's table, "df_processed" the *)
(* function's own.  frame[column] = pd.to_numeric(frame[column]) writes    *)
(* into one frame.                                                         *)
SetColumn(frames, target, column) ==
    [frames EXCEPT
        ![target] = {[x EXCEPT !.row[column] = to_numeric(@)] : x \in frames[target]}]

RowsOf(frame) == {x.row : x \in frame}

(* The conversions written into the caller's table. *)
ConversionTarget_input == "df"

(* df_processed["Year"] = ..., df_processed["Value"] = ...: the frame the   *)
(* converted columns are written into.                                     *)
ConversionTarget == "df_processed"

(* Only the engagement index rows selected. *)
InSections_eei_only(r) == r["Section"] = "Employee Engagement Index"

InSections(r) ==
    \/ r["Section"] = "Employee Engagement Index"
    \/ r["Section"] = "Theme scores"

(* A bound applied only when it is truthy. *)
WithinYears_truthy(y, min_year, max_year) ==
    /\ (~IsNone(min_year) /\ Get(min_year) # 0) => y >= Get(min_year)
    /\ (~IsNone(max_year) /\ Get(max_year) # 0) => y <= Get(max_year)

(* "if min_year is not None: ... >= min_year" and the same for max_year. *)
WithinYears(y, min_year, max_year) ==
    /\ ~IsNone(min_year) => y >= Get(min_year)
    /\ ~IsNone(max_year) => y <= Get(max_year)

EditRaise(error, message, frames) ==
    [raised |-> TRUE, error |-> error, message |-> message,
     df |-> RowsOf(frames.df)]

EditReturn(processed, frames) ==
    [raised |-> FALSE, df_processed |-> processed, df |-> RowsOf(frames.df)]

(* Year holds integers in the raw tables, so astype(int) leaves its cells  *)
(* as they are.                                                            *)
edit_csps_data(d, a) ==
    LET selected == [df |-> IndexedRows(d),
                     df_processed |-> {x \in IndexedRows(d) : InSections(x.row)}]
        converted == SetColumn(selected, ConversionTarget, "Value")
    IN IF \E x \in selected[ConversionTarget] : ~Parses(x.row["Value"])
       THEN EditRaise("ValueError", "Unable to parse string", selected)
       ELSE EditReturn(
                {x \in converted.df_processed :
                    /\ WithinYears(x.row["Year"], a.min_year, a.max_year)
                    /\ x.row["Departmental group"] \notin a.dept_groups_to_drop
                    /\ x.row["Organisation"] \notin a.orgs_to_drop},
                converted)

edit_pay_data(d, a) ==
    LET selected == [df |-> IndexedRows(d),
                     df_processed |-> {x \in IndexedRows(d) :
                                          x.row["Grade"] = "All employees"}]
        converted == SetColumn(selected, ConversionTarget, "Median salary")
    IN IF \E x \in selected[ConversionTarget] : ~Parses(x.row["Median salary"])
       THEN EditRaise("ValueError", "Unable to parse string", selected)
       ELSE EditReturn(
                {x \in converted.df_processed :
                    /\ WithinYears(x.row["Year"], a.min_year, a.max_year)
                    /\ x.row["Departmental group"] \notin a.dept_groups_to_drop},
                converted)

----------------------------------------------------------------------------
(* Specification SpecEdit: one call of edit_csps_data or edit_pay_data on  *)
(* any table made of the sample rows, for a choice of the bounds and the   *)
(* drop lists.                                                             *)

SectionLabel(section) ==
    CASE section = "Employee Engagement Index" -> EEI_LABEL
      [] section = "Theme scores" -> "Pay and benefits"
      [] OTHER -> "Response rate"

EditSurveyRow(section, y, o, v) ==
    RawSurveyRow(section, y, RawDepartmentalGroup(o), o, RawOrganisationType(o),
                 SectionLabel(section), v)

EditSurveySampleRows ==
    {EditSurveyRow("Employee Engagement Index", 2023, "OrgC", Num(70)),
     EditSurveyRow("Employee Engagement Index", 2024, "OrgC", Str("70")),
     EditSurveyRow("Theme scores", 2023, "OrgC", NaN),
     EditSurveyRow("Theme scores", 2024, "OrgC", Str("[c]")),
     EditSurveyRow("Response rate", 2024, "OrgC", Str("[c]")),
     EditSurveyRow("Response rate", 2023, "OrgC", Str("70")),
     EditSurveyRow("Employee Engagement Index", 2024, "OrgA", Num(60)),
     EditSurveyRow("Theme scores", 2024, "OrgB", Num(60)),
     EditSurveyRow("Theme scores", 2023, "OrgB", Str("70"))}

EditSalaryRow(grade, y, o, v) ==
    RawSalaryRow(grade, y, RawDepartmentalGroup(o), o, RawOrganisationType(o), v)

EditSalarySampleRows ==
    {EditSalaryRow("All employees", 2023, "OrgC", Num(35000)),
     EditSalaryRow("All employees", 2024, "OrgC", Str("35000")),
     EditSalaryRow("All employees", 2024, "OrgB", NaN),
     EditSalaryRow("All employees", 2023, "OrgB", Str("[c]")),
     EditSalaryRow("SEO/HEO", 2024, "OrgC", Str("[c]")),
     EditSalaryRow("SEO/HEO", 2023, "OrgC", Str("35000")),
     EditSalaryRow("All employees", 2024, "OrgA", Num(35000))}

YearBounds == {None, Some(0), Some(2023), Some(2024)}

EditCspsArgs ==
    [function : {"edit_csps_data"},
     dept_groups_to_drop : {{}, {"Scot Gov", "Welsh Gov"}},
     orgs_to_drop : {{}, {"OrgB"}},
     min_year : YearBounds,
     max_year : YearBounds]

EditPayArgs ==
    [function : {"edit_pay_data"},
     dept_groups_to_drop : {{}, {"Scot Gov", "Welsh Gov"}},
     min_year : YearBounds,
     max_year : YearBounds]

InitEdit ==
    /\ \/ /\ df \in SUBSET EditSurveySampleRows
          /\ args \in EditCspsArgs
          /\ pay = {}
       \/ /\ pay \in SUBSET EditSalarySampleRows
          /\ args \in EditPayArgs
          /\ df = {}
    /\ pc = "ready"
    /\ ret = NoReturn
    /\ csps_pivot = {} /\ pay_cut = {} /\ joined = {}

CallEditCspsData ==
    /\ pc = "ready"
    /\ args.function = "edit_csps_data"
    /\ ret' = edit_csps_data(df, args)
    /\ pc' = "done"
    /\ UNCHANGED <<df, args, scriptVars>>

CallEditPayData ==
    /\ pc = "ready"
    /\ args.function = "edit_pay_data"
    /\ ret' = edit_pay_data(pay, args)
    /\ pc' = "done"
    /\ UNCHANGED <<df, args, scriptVars>>

NextEdit == CallEditCspsData \/ CallEditPayData

SpecEdit == InitEdit /\ [][NextEdit]_vars

----------------------------------------------------------------------------
(* Properties of edit_csps_data and edit_pay_data, checked under SpecEdit *)

Edited == pc = "done" /\ args.function \in {"edit_csps_data", "edit_pay_data"}
EditInput == IF args.function = "edit_pay_data" THEN pay ELSE df
MeasureColumn == IF args.function = "edit_pay_data" THEN "Median salary" ELSE "Value"

(* The input rows kept by a call that returned. *)
KeptRows == {x.index : x \in ret.df_processed}

(* C14: the table edit_csps_data returns holds exactly the input rows of   *)
(* the two sections whose Year is within the supplied bounds and whose     *)
(* departmental group and organisation are not in the drop lists.          *)
C14_KeepsExactlyQualifyingRows ==
    (pc = "done" /\ args.function = "edit_csps_data" /\ ~ret.raised) =>
        /\ KeptRows =
             {r \in df :
                /\ r["Section"] \in {"Employee Engagement Index", "Theme scores"}
                /\ IsNone(args.min_year) \/ r["Year"] >= Get(args.min_year)
                /\ IsNone(args.max_year) \/ r["Year"] <= Get(args.max_year)
                /\ r["Departmental group"] \notin args.dept_groups_to_drop
                /\ r["Organisation"] \notin args.orgs_to_drop}
        /\ \A x \in ret.df_processed :
             \A c \in DOMAIN x.row : c # "Value" => x.row[c] = x.index[c]

C14_Witness ==
    /\ pc = "done" /\ args.function = "edit_csps_data" /\ ~ret.raised
    /\ \E r \in KeptRows : r["Section"] = "Theme scores"
    /\ \E r \in df \ KeptRows : r["Organisation"] \in args.orgs_to_drop
    /\ \E r \in df \ KeptRows : r["Departmental group"] \in args.dept_groups_to_drop
    /\ \E r \in df \ KeptRows : r["Section"] = "Response rate"

(* The rows a call keeps when their year is left out of account. *)
YearCandidates ==
    IF args.function = "edit_pay_data"
    THEN {r \in pay : /\ r["Grade"] = "All employees"
                      /\ r["Departmental group"] \notin args.dept_groups_to_drop}
    ELSE {r \in df : /\ r["Section"] \in {"Employee Engagement Index", "Theme scores"}
                     /\ r["Departmental group"] \notin args.dept_groups_to_drop
                     /\ r["Organisation"] \notin args.orgs_to_drop}

(* C15: the year bounds are inclusive and each applies on its own: with    *)
(* min_year alone the rows of Year >= min_year are kept, with max_year     *)
(* alone those of Year <= max_year, with neither no row is removed for its *)
(* year; a bound of 0 is applied like any other.                           *)
C15_YearBoundsInclusiveOptional ==
    (Edited /\ ~ret.raised) =>
        /\ KeptRows \subseteq YearCandidates
        /\ \A r \in YearCandidates :
             r \in KeptRows <=>
                /\ args.min_year # None => r["Year"] >= args.min_year[1]
                /\ args.max_year # None => r["Year"] <= args.max_year[1]
        /\ (args.min_year = None /\ args.max_year = None) => KeptRows = YearCandidates
        /\ (args.max_year = Some(0) /\ \A r \in EditInput : r["Year"] > 0)
             => KeptRows = {}

C15_Witness ==
    /\ Edited /\ ~ret.raised
    /\ args.min_year = Some(2024) /\ args.max_year = None
    /\ \E r \in KeptRows : r["Year"] = 2024
    /\ \E r \in YearCandidates \ KeptRows : r["Year"] = 2023

(* The rows whose measure is converted hold a string that is no number. *)
SentinelInConvertedRows ==
    \E r \in EditInput :
        /\ IsStr(r[MeasureColumn]) /\ Text(r[MeasureColumn]) \notin NumericText
        /\ IF args.function = "edit_pay_data"
           THEN r["Grade"] = "All employees"
           ELSE r["Section"] \in {"Employee Engagement Index", "Theme scores"}

(* C16: with a non-numeric token in the Value or Median salary column the  *)
(* edit functions return normally and no returned cell holds the token.    *)
C16_SentinelParsesToMissing ==
    (Edited /\ SentinelInConvertedRows) =>
        /\ ~ret.raised
        /\ \A x \in ret.df_processed : ~IsStr(x.row[MeasureColumn])

----------------------------------------------------------------------------
(* analyse_pay.py: the deflation block *)

CPI_DEFLATOR_BASE_YEAR == 2025

(* A quotient n / d of two numbers, kept exact. *)
Ratio(n, d) == <<n, d>>
Numerator(q) == q[1]
Denominator(q) == q[2]

(* df_cpi["CPI"] / cpi_base_year *)
Deflator_inverted(cpi_base_year, cpi) == Ratio(cpi, cpi_base_year)

(* cpi_base_year / df_cpi["CPI"] *)
Deflator(cpi_base_year, cpi) == Ratio(cpi_base_year, cpi)

(* df_cpi[["Year", "Deflator"]] after the Deflator column is computed. *)
CpiDeflators(cpi, cpi_base_year) ==
    {("Year" :> r["Year"]) @@ ("Deflator" :> Deflator(cpi_base_year, r["CPI"])) :
        r \in cpi}

(* merge(how="inner"): the rows without a deflator are dropped. *)
MergeDeflators_inner(rows, deflators) ==
    {[index |-> x.index, row |-> x.row @@ ("Deflator" :> m["Deflator"])] :
        <<x, m>> \in {p \in rows \X deflators : p[1].row["Year"] = p[2]["Year"]}}

(* merge(df_cpi_deflators, on="Year", how="left"): every left row is kept, *)
(* with a missing Deflator where no year matches.                          *)
MergeDeflators(rows, deflators) ==
    {[index |-> x.index, row |-> x.row @@ ("Deflator" :> m["Deflator"])] :
        <<x, m>> \in {p \in rows \X deflators : p[1].row["Year"] = p[2]["Year"]}}
    \cup {[index |-> x.index, row |-> x.row @@ ("Deflator" :> NaN)] :
            x \in {y \in rows : \A m \in deflators : m["Year"] # y.row["Year"]}}

(* Median salary * Deflator: missing when either factor is missing. *)
Times(salary, deflator) ==
    IF isna(salary) \/ isna(deflator) THEN NaN
    ELSE Ratio(salary[1] * Numerator(deflator), Denominator(deflator))

DropColumn(row, column) == [c \in DOMAIN row \ {column} |-> row[c]]

(* The deflation of one merged table: by year for the median time series,  *)
(* by the base year's deflator for the two cross-sections.                 *)
DeflatePay(table, cpi, analysis) ==
    LET base == {r \in cpi : r["Year"] = CPI_DEFLATOR_BASE_YEAR}
    IN IF base = {}
       THEN [raised |-> TRUE, error |-> "IndexError",
             message |-> "index 0 is out of bounds for axis 0 with size 0"]
       ELSE LET cpi_base_year == (CHOOSE r \in base : TRUE)["CPI"]
                df_cpi_deflators == CpiDeflators(cpi, cpi_base_year)
                base_deflator ==
                    (CHOOSE m \in df_cpi_deflators :
                        m["Year"] = CPI_DEFLATOR_BASE_YEAR)["Deflator"]
            IN [raised |-> FALSE,
                df_cpi_deflators |-> df_cpi_deflators,
                df_pay_csps |->
                    IF analysis = "median"
                    THEN {[index |-> x.index,
                           row |-> DropColumn(x.row, "Deflator")
                                   @@ ("Median salary deflated" :>
                                        Times(x.row["Median salary"], x.row["Deflator"]))] :
                            x \in MergeDeflators(IndexedRows(table), df_cpi_deflators)}
                    ELSE {[index |-> x.index,
                           row |-> x.row
                                   @@ ("Median salary deflated" :>
                                        Times(x.row["Median salary"], base_deflator))] :
                            x \in IndexedRows(table)}]

----------------------------------------------------------------------------
(* Specification SpecDeflate: the deflation of a merged table of at most   *)
(* MaxRows rows with any CPI series that has one April figure per year.    *)

DeflateYears == {2023, 2024, CPI_DEFLATOR_BASE_YEAR}
CpiValues == {100, 125, 138}
Salaries == {NaN, Num(30000), Num(36000)}

(* A series: some of the years, each with one CPI figure. *)
CpiSeries ==
    UNION {{{("Year" :> y) @@ ("CPI" :> f[y]) : y \in years} :
                f \in [years -> CpiValues]} : years \in SUBSET DeflateYears}

MedianJoinedRows ==
    {("Year" :> y) @@ ("Median salary" :> v) @@ (EEI_LABEL :> Num(70)) :
        y \in DeflateYears, v \in Salaries}

CrossSectionJoinedRows ==
    {("Organisation" :> o) @@ ("Median salary" :> v) @@ (EEI_LABEL :> Num(70)) :
        o \in Organisations, v \in Salaries}

InitDeflate ==
    /\ \/ /\ args = [analysis |-> "median"]
          /\ joined \in TablesFrom(MedianJoinedRows, MaxRows)
       \/ /\ args \in [analysis : CrossSections]
          /\ joined \in TablesFrom(CrossSectionJoinedRows, MaxRows)
    /\ df \in CpiSeries
    /\ pc = "deflate"
    /\ ret = NoReturn
    /\ pay = {} /\ csps_pivot = {} /\ pay_cut = {}

Deflate ==
    /\ pc = "deflate"
    /\ ret' = DeflatePay(joined, df, args.analysis)
    /\ pc' = IF ret'.raised THEN "failed" ELSE "deflated"
    /\ UNCHANGED <<df, args, scriptVars>>

NextDeflate == Deflate

SpecDeflate == InitDeflate /\ [][NextDeflate]_vars

----------------------------------------------------------------------------
(* Properties of the deflation block, checked under SpecDeflate *)

HasCpi(y) == \E r \in df : r["Year"] = y
Cpi(y) == (CHOOSE r \in df : r["Year"] = y)["CPI"]
DeflatorOf(y) == (CHOOSE m \in ret.df_cpi_deflators : m["Year"] = y)["Deflator"]

(* q = n / d, for positive d *)
RatioEquals(q, n, d) == Numerator(q) * d = n * Denominator(q)

(* C18: with the base year in the CPI series, the base year's deflator is  *)
(* exactly 1 and a base-year row's deflated salary is its nominal salary;  *)
(* the deflator of any other year is CPI(base year) / CPI(year).           *)
C18_BaseYearDeflatorIsOne ==
    (pc # "deflate" /\ HasCpi(CPI_DEFLATOR_BASE_YEAR)) =>
        /\ ~ret.raised
        /\ RatioEquals(DeflatorOf(CPI_DEFLATOR_BASE_YEAR), 1, 1)
        /\ \A r \in df :
             RatioEquals(DeflatorOf(r["Year"]), Cpi(CPI_DEFLATOR_BASE_YEAR), r["CPI"])
        /\ \A x \in ret.df_pay_csps :
             (/\ ~isna(x.index["Median salary"])
              /\ args.analysis = "median" => x.index["Year"] = CPI_DEFLATOR_BASE_YEAR)
                => /\ ~isna(x.row["Median salary deflated"])
                   /\ RatioEquals(x.row["Median salary deflated"],
                                  x.index["Median salary"][1], 1)

C18_Witness ==
    /\ pc = "deflated" /\ args.analysis = "median"
    /\ \E r \in df : r["Year"] # CPI_DEFLATOR_BASE_YEAR
                     /\ r["CPI"] # Cpi(CPI_DEFLATOR_BASE_YEAR)
    /\ \E x \in ret.df_pay_csps :
         /\ x.index["Year"] = CPI_DEFLATOR_BASE_YEAR
         /\ ~isna(x.row["Median salary deflated"])

(* C19: in the deflation of the time series a row whose Year has no CPI    *)
(* figure is kept with a missing deflated salary and raises nothing; a row *)
(* whose Year has one gets its salary times that year's deflator.          *)
C19_UnmatchedYearKeptMissing ==
    (pc # "deflate" /\ args.analysis = "median" /\ HasCpi(CPI_DEFLATOR_BASE_YEAR)) =>
        /\ ~ret.raised
        /\ {x.index : x \in ret.df_pay_csps} = joined
        /\ Cardinality(ret.df_pay_csps) = Cardinality(joined)
        /\ \A x \in ret.df_pay_csps :
             /\ "Deflator" \notin DOMAIN x.row
             /\ \A c \in DOMAIN x.index : x.row[c] = x.index[c]
             /\ ~HasCpi(x.index["Year"]) => isna(x.row["Median salary deflated"])
             /\ (HasCpi(x.index["Year"]) /\ ~isna(x.index["Median salary"])) =>
                  /\ ~isna(x.row["Median salary deflated"])
                  /\ RatioEquals(x.row["Median salary deflated"],
                                 x.index["Median salary"][1] * Cpi(CPI_DEFLATOR_BASE_YEAR),
                                 Cpi(x.index["Year"]))

C19_Witness ==
    /\ pc = "deflated" /\ args.analysis = "median"
    /\ \E x \in ret.df_pay_csps :
         /\ ~HasCpi(x.index["Year"]) /\ ~isna(x.index["Median salary"])
         /\ isna(x.row["Median salary deflated"])
    /\ \E x \in ret.df_pay_csps :
         /\ x.index["Year"] # CPI_DEFLATOR_BASE_YEAR
         /\ ~isna(x.row["Median salary deflated"])

----------------------------------------------------------------------------
(* utils.fit_eei_theme_regressions *)

(* A report written in front of the earlier ones. *)
Emit_prepend(stdout, report, theme) ==
    <<[report |-> report, theme |-> theme]>> \o stdout

(* print(...): one report on standard output, after the earlier ones. *)
Emit(stdout, report, theme) ==
    Append(stdout, [report |-> report, theme |-> theme])

ColumnsOf(rows) == UNION {DOMAIN r : r \in rows}

FitRaise(error, key, stdout) ==
    [raised |-> TRUE, error |-> error, message |-> key, stdout |-> stdout]

RECURSIVE FitThemes_break(_, _, _, _)
(* The loop leaving at the first theme without two valid rows (break where *)
(* the code has continue).                                                 *)
FitThemes_break(df_analysis, a, i, stdout) ==
    IF i > Len(a.ts_labels) THEN [raised |-> FALSE, stdout |-> stdout]
    ELSE LET theme == a.ts_labels[i]
         IN IF Cardinality(df_analysis) < 2
            THEN FitThemes_break(df_analysis, a, i + 1,
                           Emit(stdout, "Insufficient data for regression", theme))
            ELSE IF theme \notin ColumnsOf(df_analysis)
            THEN FitRaise("KeyError", theme, stdout)
            ELSE IF a.eei_label \notin ColumnsOf(df_analysis)
            THEN FitRaise("KeyError", a.eei_label, stdout)
            ELSE LET valid == {r \in df_analysis :
                                  ~(isna(r[theme]) \/ isna(r[a.eei_label]))}
                 IN IF Cardinality(valid) < 2
                    THEN [raised |-> FALSE,
                          stdout |-> Emit(stdout, "Insufficient valid data for regression",
                                          theme)]
                    ELSE IF /\ a.constant_skipped
                            /\ Cardinality({r[theme] : r \in valid}) = 1
                    THEN FitRaise("IndexError", "single positional indexer is out-of-bounds",
                                  stdout)
                    ELSE FitThemes_break(df_analysis, a, i + 1,
                             Emit(stdout, "Regression results", theme))

RECURSIVE FitThemes(_, _, _, _)
(* The loop over ts_labels from position i on.  With at least two valid    *)
(* rows the model is fitted; sm.add_constant (has_constant="skip") may     *)
(* leave a theme column of equal non-zero values without an intercept, and *)
(* params.iloc[1] is then out of bounds.                                   *)
FitThemes(df_analysis, a, i, stdout) ==
    IF i > Len(a.ts_labels) THEN [raised |-> FALSE, stdout |-> stdout]
    ELSE LET theme == a.ts_labels[i]
         IN IF Cardinality(df_analysis) < 2
            THEN FitThemes(df_analysis, a, i + 1,
                           Emit(stdout, "Insufficient data for regression", theme))
            ELSE IF theme \notin ColumnsOf(df_analysis)
            THEN FitRaise("KeyError", theme, stdout)
            ELSE IF a.eei_label \notin ColumnsOf(df_analysis)
            THEN FitRaise("KeyError", a.eei_label, stdout)
            ELSE LET valid == {r \in df_analysis :
                                  ~(isna(r[theme]) \/ isna(r[a.eei_label]))}
                 IN IF Cardinality(valid) < 2
                    THEN FitThemes(df_analysis, a, i + 1,
                             Emit(stdout, "Insufficient valid data for regression", theme))
                    ELSE IF /\ a.constant_skipped
                            /\ Cardinality({r[theme] : r \in valid}) = 1
                    THEN FitRaise("IndexError", "single positional indexer is out-of-bounds",
                                  stdout)
                    ELSE FitThemes(df_analysis, a, i + 1,
                             Emit(stdout, "Regression results", theme))

fit_eei_theme_regressions(df_pivot, a) == FitThemes(df_pivot, a, 1, <<>>)

----------------------------------------------------------------------------
(* Specification SpecFit: one call of fit_eei_theme_regressions on a wide  *)
(* table with one row per organisation.                                    *)

SampleThemeLabels == <<"Pay and benefits", "Resources and workload">>

Measures == {EEI_LABEL} \cup {SampleThemeLabels[i] : i \in DOMAIN SampleThemeLabels}

Scores == {NaN, Num(60), Num(70)}

(* The wide tables over a set of measure columns: at most one row for each *)
(* organisation.                                                           *)
WideTables(measures) ==
    UNION {{{("Organisation" :> o) @@ f[o] : o \in orgs} :
                f \in [orgs -> [measures -> Scores]]} :
            orgs \in SUBSET Organisations}

(* Every label once, in either order, or a shorter or repeating list. *)
ThemeLists ==
    {<<>>} \cup {<<t>> : t \in Measures \ {EEI_LABEL}}
           \cup {<<t, u>> : t, u \in Measures \ {EEI_LABEL}}

FitArgs ==
    [function : {"fit_eei_theme_regressions"},
     eei_label : {EEI_LABEL},
     ts_labels : ThemeLists,
     constant_skipped : BOOLEAN]

InitFit ==
    /\ csps_pivot \in UNION {WideTables(Measures \ {absent}) :
                                absent \in Measures \cup {"<none>"}}
    /\ args \in FitArgs
    /\ pc = "ready"
    /\ ret = NoReturn
    /\ df = {} /\ pay = {} /\ pay_cut = {} /\ joined = {}

CallFitEeiThemeRegressions ==
    /\ pc = "ready"
    /\ args.function = "fit_eei_theme_regressions"
    /\ ret' = fit_eei_theme_regressions(csps_pivot, args)
    /\ pc' = "done"
    /\ UNCHANGED <<df, args, scriptVars>>

NextFit == CallFitEeiThemeRegressions

SpecFit == InitFit /\ [][NextFit]_vars

----------------------------------------------------------------------------
(* Properties of fit_eei_theme_regressions, checked under SpecFit *)

Fitted == pc = "done" /\ args.function = "fit_eei_theme_regressions"

(* C20: the reports come in the order of ts_labels, one for each position  *)
(* of the list; a call that raises has reported the labels before the one  *)
(* it failed on, in that order, and nothing else.                          *)
C20_ReportsInLabelOrder ==
    Fitted =>
        /\ Len(ret.stdout) <= Len(args.ts_labels)
        /\ \A i \in 1..Len(ret.stdout) : ret.stdout[i].theme = args.ts_labels[i]
        /\ ~ret.raised => Len(ret.stdout) = Len(args.ts_labels)
        /\ ret.raised => Len(ret.stdout) < Len(args.ts_labels)

C20_Witness ==
    /\ Fitted /\ ~ret.raised
    /\ Len(args.ts_labels) = 2 /\ args.ts_labels[1] # args.ts_labels[2]
    /\ args.ts_labels # SampleThemeLabels
    /\ ret.stdout[1].report = "Insufficient valid data for regression"
    /\ ret.stdout[2].report = "Regression results"

(* The rows of the table with both the theme value and the EEI value. *)
ValidRows(theme) ==
    {r \in csps_pivot : ~(isna(r[theme]) \/ isna(r[args.eei_label]))}

(* The theme at position i of ts_labels has fewer than two rows with both  *)
(* values: the table has fewer than two rows, or both columns are there    *)
(* and fewer than two rows have a value in each.                           *)
InsufficientAt(i) ==
    \/ Cardinality(csps_pivot) < 2
    \/ /\ {args.ts_labels[i], args.eei_label} \subseteq ColumnsOf(csps_pivot)
       /\ Cardinality(ValidRows(args.ts_labels[i])) < 2

InsufficientNotices ==
    {"Insufficient data for regression", "Insufficient valid data for regression"}

(* The loop came to position i: every earlier position has its report. *)
ReachedAt(i) == Len(ret.stdout) >= i - 1

(* C21: a theme with fewer than two rows holding both values, once the     *)
(* loop comes to it, gets an insufficient-data notice and no regression    *)
(* results, the call does not raise on it, and the loop goes on to the     *)
(* next theme of the list, which gets its own report or raises its own     *)
(* error.                                                                  *)
C21_InsufficientDataIsSkip ==
    Fitted =>
        \A i \in DOMAIN args.ts_labels :
            (InsufficientAt(i) /\ ReachedAt(i)) =>
                /\ Len(ret.stdout) >= i
                /\ ret.stdout[i].theme = args.ts_labels[i]
                /\ ret.stdout[i].report \in InsufficientNotices
                /\ i < Len(args.ts_labels) =>
                     \/ /\ Len(ret.stdout) > i
                        /\ ret.stdout[i + 1].theme = args.ts_labels[i + 1]
                     \/ ret.raised /\ Len(ret.stdout) = i
                /\ (\A j \in DOMAIN args.ts_labels :
                        j > i => args.ts_labels[j] \in ColumnsOf(csps_pivot)
                                 /\ ~args.constant_skipped)
                     => Len(ret.stdout) = Len(args.ts_labels) /\ ~ret.raised

C21_Witness ==
    /\ Fitted /\ ~ret.raised
    /\ args.ts_labels = SampleThemeLabels
    /\ Cardinality(csps_pivot) = 2
    /\ InsufficientAt(1) /\ ~InsufficientAt(2)
    /\ ret.stdout[1].report = "Insufficient valid data for regression"
    /\ ret.stdout[2].report = "Regression results"

----------------------------------------------------------------------------
(* get_significance_stars, the function nested in                          *)
(* fit_eei_theme_regressions.  A p-value is NaN or a fraction <<n, d>>     *)
(* with d > 0; model.f_pvalue is NaN when the fit leaves no residual       *)
(* degrees of freedom.                                                     *)

(* p < n/d for two fractions; every comparison with NaN is False. *)
LessThan(p, q) == ~isna(p) /\ p[1] * q[2] < q[1] * p[2]

LessOrEqual(p, q) == ~isna(p) /\ p[1] * q[2] <= q[1] * p[2]

(* The bands closed on the right: <= where the code has <. *)
get_significance_stars_inclusive(p_value) ==
    IF LessOrEqual(p_value, <<1, 1000>>) THEN "***"
    ELSE IF LessOrEqual(p_value, <<1, 100>>) THEN "**"
    ELSE IF LessOrEqual(p_value, <<5, 100>>) THEN "*"
    ELSE ""

get_significance_stars(p_value) ==
    IF LessThan(p_value, <<1, 1000>>) THEN "***"
    ELSE IF LessThan(p_value, <<1, 100>>) THEN "**"
    ELSE IF LessThan(p_value, <<5, 100>>) THEN "*"
    ELSE ""

----------------------------------------------------------------------------
(* Specification SpecStars: one call of get_significance_stars on a        *)
(* p-value: every multiple of 0.0001 up to MaxTenThousandths, 0.0009999,   *)
(* 0.5, 1 and NaN.                                                         *)

MaxTenThousandths == 600

PValues ==
    {NaN, <<9999, 10000000>>, <<1, 2>>, <<1, 1>>}
        \cup {<<n, 10000>> : n \in 0..MaxTenThousandths}

InitStars ==
    /\ args \in [function : {"get_significance_stars"}, p_value : PValues]
    /\ pc = "ready"
    /\ ret = NoReturn
    /\ df = {} /\ pay = {} /\ csps_pivot = {} /\ pay_cut = {} /\ joined = {}

CallGetSignificanceStars ==
    /\ pc = "ready"
    /\ args.function = "get_significance_stars"
    /\ ret' = [raised |-> FALSE, stars |-> get_significance_stars(args.p_value)]
    /\ pc' = "done"
    /\ UNCHANGED <<df, args, scriptVars>>

NextStars == CallGetSignificanceStars

SpecStars == InitStars /\ [][NextStars]_vars

----------------------------------------------------------------------------
(* Properties of get_significance_stars, checked under SpecStars *)

Starred == pc = "done" /\ args.function = "get_significance_stars"

(* n/d <= p for a p-value that is a number. *)
AtLeast(p, n, d) == n * p[2] <= p[1] * d

(* C22: for a p-value that is a number the result is '***' exactly when    *)
(* p < 0.001, '**' exactly when 0.001 <= p < 0.01, '*' exactly when        *)
(* 0.01 <= p < 0.05 and '' exactly when p >= 0.05, so each p-value falls   *)
(* in one band and only one; a NaN p-value gets ''.                        *)
C22_StrictBands ==
    Starred =>
        LET p == args.p_value
            stars == ret.stars
        IN /\ stars \in {"***", "**", "*", ""}
           /\ isna(p) => stars = ""
           /\ ~isna(p) =>
                /\ stars = "***" <=> ~AtLeast(p, 1, 1000)
                /\ stars = "**" <=> (AtLeast(p, 1, 1000) /\ ~AtLeast(p, 1, 100))
                /\ stars = "*" <=> (AtLeast(p, 1, 100) /\ ~AtLeast(p, 5, 100))
                /\ stars = "" <=> AtLeast(p, 5, 100)

C22_Witness ==
    /\ Starred
    /\ args.p_value = <<10, 10000>>
    /\ ret.stars = "**"

C22_WitnessJustBelow ==
    /\ Starred
    /\ args.p_value = <<9999, 10000000>>
    /\ ret.stars = "***"

----------------------------------------------------------------------------
(* The printed regression report: the lines fit_eei_theme_regressions      *)
(* prints for one fitted theme, and the legend analyse_pay.py prints after *)
(* its analyses.  R-squared is a fraction <<n, d>>; the superscript two of *)
(* the printed text is written 2 here.                                     *)

Line(label, value) == [label |-> label, value |-> value]

(* utils.py:461-465: the header, R2, the p-value with its stars, and the   *)
(* equation; the blank line is left out.                                   *)
PrintRegressionResults(stdout, theme, r_squared, p_value) ==
    stdout \o <<Line("Regression results for EEI vs", theme),
                Line("R2", r_squared),
                Line("p-value", <<p_value, get_significance_stars(p_value)>>),
                Line("Equation", "y = intercept + slope x")>>

(* analyse_pay.py:627-638 *)
PrintLegend(stdout) ==
    stdout \o <<Line("legend", "Significance levels:"),
                Line("legend", "*** p < 0.001"),
                Line("legend", "**  p < 0.01"),
                Line("legend", "*   p < 0.05"),
                Line("legend", "    p >= 0.05 (not significant)"),
                Line("legend", "R2 thresholds:"),
                Line("legend", "R2 = 0 = none"),
                Line("legend", "0 < R2 <= 0.1 = weak"),
                Line("legend", "0.1 < R2 <= 0.35 = moderate"),
                Line("legend", "R2 > 0.35 = strong")>>

----------------------------------------------------------------------------
(* Specification SpecReport: the results of one regression are printed,    *)
(* then the legend.  R-squared is a multiple of 0.01 up to                 *)
(* MaxRSquaredHundredths, or 1.                                            *)

MaxRSquaredHundredths == 40

RSquaredValues == {<<1, 1>>} \cup {<<n, 100>> : n \in 0..MaxRSquaredHundredths}

ReportPValues == {<<9999, 10000000>>, <<1, 1000>>, <<1, 2>>}

InitReport ==
    /\ args \in [function : {"report"},
                 theme : {SampleThemeLabels[1]},
                 r_squared : RSquaredValues,
                 p_value : ReportPValues]
    /\ pc = "results"
    /\ ret = [raised |-> FALSE, stdout |-> <<>>]
    /\ df = {} /\ pay = {} /\ csps_pivot = {} /\ pay_cut = {} /\ joined = {}

ReportResults ==
    /\ pc = "results"
    /\ ret' = [ret EXCEPT !.stdout =
                  PrintRegressionResults(@, args.theme, args.r_squared, args.p_value)]
    /\ pc' = "legend"
    /\ UNCHANGED <<df, args, scriptVars>>

ReportLegend ==
    /\ pc = "legend"
    /\ ret' = [ret EXCEPT !.stdout = PrintLegend(@)]
    /\ pc' = "done"
    /\ UNCHANGED <<df, args, scriptVars>>

NextReport == ReportResults \/ ReportLegend

SpecReport == InitReport /\ [][NextReport]_vars

----------------------------------------------------------------------------
(* Properties of the printed report, checked under SpecReport *)

(* The band of an R-squared value by the stated boundaries. *)
RSquaredBand(r) ==
    IF r[1] = 0 THEN "none"
    ELSE IF r[1] * 10 <= r[2] THEN "weak"
    ELSE IF r[1] * 100 <= 35 * r[2] THEN "moderate"
    ELSE "strong"

(* C23: once the results of a regression are printed, the report holds the *)
(* band of its R-squared: 'none' for 0, 'weak' up to and including 0.1,    *)
(* 'moderate' up to and including 0.35, 'strong' above.                    *)
C23_ReportBandsRSquared ==
    (args.function = "report" /\ pc # "results") =>
        \E i \in DOMAIN ret.stdout :
            /\ ret.stdout[i].label \in {"band", "R2 band", "fit"}
            /\ ret.stdout[i].value = RSquaredBand(args.r_squared)

----------------------------------------------------------------------------
(* Specification SpecScenario: the organisation cross-section from the raw *)
(* tables on: both tables cleaned, the survey table pivoted for 2024, the  *)
(* pay table cut, the organisation names reconciled without renamings or   *)
(* exclusions, and the two joined on Organisation.  The pay cut is the     *)
(* script's, Year == 2025, or takes every year.                            *)

ScenarioSurveyRows ==
    {EditSurveyRow("Employee Engagement Index", 2024, "OrgA", Num(70)),
     EditSurveyRow("Theme scores", 2024, "OrgA", Num(60)),
     EditSurveyRow("Employee Engagement Index", 2023, "OrgA", Num(60)),
     EditSurveyRow("Response rate", 2024, "OrgA", Num(70)),
     EditSurveyRow("Employee Engagement Index", 2024, "OrgB", Num(70))}

ScenarioSalaryRows ==
    {EditSalaryRow("SEO/HEO", 2024, "OrgA", Num(35000)),
     EditSalaryRow("All employees", 2024, "OrgA", Num(35000)),
     EditSalaryRow("All employees", 2025, "OrgA", Num(35000)),
     EditSalaryRow("All employees", 2025, "OrgB", NaN)}

ScenarioEditArgs ==
    [dept_groups_to_drop |-> {}, orgs_to_drop |-> {},
     min_year |-> None, max_year |-> None]

ScenarioPivotArgs ==
    [year_filter |-> Some({2024}), organisation_type_filter |-> None,
     organisation_filter |-> None, exclude_orgs |-> None,
     include_orgs |-> None, preserve_columns |-> Some({"Organisation type"})]

NoRenamings == <<>>

InitScenario ==
    /\ df \in SUBSET ScenarioSurveyRows
    /\ pay \in SUBSET ScenarioSalaryRows
    /\ args \in [function : {"scenario"}, pay_year : {None, Some(2025)}]
    /\ pc = "clean"
    /\ ret = NoReturn
    /\ csps_pivot = {} /\ pay_cut = {} /\ joined = {}

(* utils.edit_csps_data and utils.edit_pay_data on the raw tables. *)
ScenarioClean ==
    /\ pc = "clean"
    /\ LET csps == edit_csps_data(df, ScenarioEditArgs)
           salary == edit_pay_data(pay, ScenarioEditArgs)
       IN IF csps.raised THEN ret' = csps /\ pc' = "failed"
          ELSE IF salary.raised THEN ret' = salary /\ pc' = "failed"
          ELSE /\ ret' = [raised |-> FALSE,
                          df_csps_eei_ts |-> RowsOf(csps.df_processed),
                          df_pay_cleaned |-> RowsOf(salary.df_processed)]
               /\ pc' = "pivot"
    /\ UNCHANGED <<df, args, scriptVars>>

ScenarioPivot ==
    /\ pc = "pivot"
    /\ LET r == filter_pivot_data(ret.df_csps_eei_ts, ScenarioPivotArgs)
       IN IF r.raised
          THEN ret' = r @@ ret /\ pc' = "failed" /\ UNCHANGED csps_pivot
          ELSE /\ csps_pivot' = WideRows(r.df_pivot)
               /\ pc' = "cut"
               /\ UNCHANGED ret
    /\ UNCHANGED <<df, args, pay, pay_cut, joined>>

ScenarioCutPay ==
    /\ pc = "cut"
    /\ pay_cut' = IndexedRows(PayOrganisationCut(ret.df_pay_cleaned, args.pay_year,
                                  [exclude_orgs |-> {}], PAY_SUMMARY_ORGANISATION_NAME))
    /\ pc' = "reconcile"
    /\ UNCHANGED <<df, args, ret, pay, csps_pivot, joined>>

ScenarioReconcile ==
    /\ pc = "reconcile"
    /\ csps_pivot' = RenameOrganisations(csps_pivot, NoRenamings)
    /\ pay_cut' = RenameOrganisations(pay_cut, NoRenamings)
    /\ LET r == CheckOrganisationsMatched(OrganisationsOf(csps_pivot'),
                                          OrganisationsOf(pay_cut'), "organisation")
       IN /\ ret' = r @@ ret
          /\ pc' = IF r.raised THEN "failed" ELSE "join"
    /\ UNCHANGED <<df, args, pay, joined>>

ScenarioJoin ==
    /\ pc = "join"
    /\ joined' = JoinPayCsps(pay_cut, csps_pivot, "organisation")
    /\ pc' = "done"
    /\ UNCHANGED <<df, args, ret, pay, csps_pivot, pay_cut>>

NextScenario ==
    ScenarioClean \/ ScenarioPivot \/ ScenarioCutPay \/ ScenarioReconcile \/ ScenarioJoin

SpecScenario == InitScenario /\ [][NextScenario]_vars

----------------------------------------------------------------------------
(* Properties of the scenario, checked under SpecScenario *)

(* The joined table is the single row of OrgA with the three values. *)
JoinedIsScenarioRow ==
    /\ pc = "done"
    /\ Cardinality(joined) = 1
    /\ \A x \in joined :
          /\ x.row["Organisation"] = "OrgA"
          /\ EEI_LABEL \in DOMAIN x.row /\ x.row[EEI_LABEL] = Num(70)
          /\ "Pay and benefits" \in DOMAIN x.row
          /\ x.row["Pay and benefits"] = Num(60)
          /\ x.row["Median salary"] = Num(35000)

(* C24: with the survey rows (OrgA, 2024, EEI, 70) and (OrgA, 2024, 'Pay   *)
(* and benefits', 60) and the one pay record of OrgA for 2024 in grade     *)
(* band SEO/HEO with median salary 35000, the run ends with the one joined *)
(* row OrgA, EEI 70, 'Pay and benefits' 60, 'Median salary' 35000.         *)
C24_ScenarioJoinsOneRow ==
    (/\ args.function = "scenario"
     /\ pc \in {"done", "failed"}
     /\ df = {EditSurveyRow("Employee Engagement Index", 2024, "OrgA", Num(70)),
              EditSurveyRow("Theme scores", 2024, "OrgA", Num(60))}
     /\ pay = {EditSalaryRow("SEO/HEO", 2024, "OrgA", Num(35000))})
        => JoinedIsScenarioRow

(* The same survey rows with a pay record of grade 'All employees' and no  *)
(* year cut on the pay side do give the row.                               *)
ScenarioAllEmployeesJoins ==
    (/\ args.function = "scenario" /\ IsNone(args.pay_year)
     /\ pc \in {"done", "failed"}
     /\ df = {EditSurveyRow("Employee Engagement Index", 2024, "OrgA", Num(70)),
              EditSurveyRow("Theme scores", 2024, "OrgA", Num(60))}
     /\ pay = {EditSalaryRow("All employees", 2024, "OrgA", Num(35000))})
        => JoinedIsScenarioRow

----------------------------------------------------------------------------
(* The years a joined row pairs, checked under SpecPay *)

(* The survey rows of one year behind a row of the pivoted table. *)
SurveyRowsBehind(key, year, label) ==
    {r \in df : /\ r["Year"] = year
                /\ r["Label"] = label
                /\ \A c \in DOMAIN key \ {"Year"} : r[c] = key[c]}

(* C25: a joined row of pay year T holds the survey scores of year T - 1:  *)
(* in the median time series (and in a panel) the survey year of the row   *)
(* is one less than its pay year, and its scores are those of the          *)
(* benchmark's survey rows of that year; in a cross-section the pay record *)
(* is of 2025 and the scores are those of the organisation's survey rows   *)
(* of 2024.  No row holds survey and pay values of the same year.          *)
C25_SurveyYearMatchedToNextPayYear ==
    (pc = "done" /\ "analysis" \in DOMAIN args) =>
        \A j \in joined :
            IF args.analysis \in CrossSections
            THEN /\ j.left["Year"] = 2025
                 /\ j.row[EEI_LABEL] = Mean(SurveyRowsBehind(j.right, 2024, EEI_LABEL))
            ELSE /\ j.left["Year"] = j.right["Year"] + 1
                 /\ j.row["Year"] = j.left["Year"]
                 /\ j.row[EEI_LABEL] =
                        Mean(SurveyRowsBehind(
                                IF args.analysis = "median"
                                THEN [Organisation |-> CSPS_MEDIAN_ORGANISATION_NAME]
                                ELSE j.right,
                                j.left["Year"] - 1, EEI_LABEL))

C25_Witness ==
    /\ pc = "done" /\ args.analysis = "median"
    /\ \E j \in joined :
          /\ j.left["Year"] = 2025 /\ j.right["Year"] = 2024
          /\ j.row[EEI_LABEL] = Num(70)
    /\ \E r \in pay : r["Year"] = 2024

C25_WitnessCrossSection ==
    /\ pc = "done" /\ args.analysis = "organisation"
    /\ \E j \in joined : j.left["Year"] = 2025 /\ j.row[EEI_LABEL] = Num(70)
    /\ \E r \in pay : r["Year"] = 2024

----------------------------------------------------------------------------
(* analyse_pay.py, LOAD DATA: the two loops over the candidate paths, the  *)
(* request to the CPI API, and the first statements that read the loaded   *)
(* tables.                                                                 *)

CSPS_PATH_OPTIONS ==
    <<"C:/Users/<login>/Institute for Government/Data - General/Civil service/Civil Service - People Survey/",
      "C:/Users/<login>/OneDrive - Institute for Government/Data - Civil service/Civil Service - People Survey/">>

PAY_PATH_OPTIONS ==
    <<"C:/Users/<login>/Institute for Government/Data - General/Civil service/Civil Service - pay and high pay/",
      "C:/Users/<login>/OneDrive - Institute for Government/Data - Civil service/Civil Service - pay and high pay/">>

PathsOf(options) == {options[i] : i \in DOMAIN options}

(* One iteration of a load loop at position i of the options: read_excel   *)
(* binds the table and the loop is left, or FileNotFoundError is caught,   *)
(* a notice is printed and the loop takes the next path, if there is one.  *)
(* Nothing follows the loop.  "next" is 0 once the loop is over.           *)
TryPath(options, files, i, loaded) ==
    IF options[i] \in files
    THEN [table |-> Some(options[i]), notice |-> loaded, next |-> 0]
    ELSE [table |-> None, notice |-> "File not found, trying next option...",
          next |-> IF i < Len(options) THEN i + 1 ELSE 0]

----------------------------------------------------------------------------
(* Specification SpecLoad: the load step for any placement of the two      *)
(* files among their candidate paths and either outcome of the request.    *)

InitLoad ==
    /\ args \in [function : {"load"},
                 csps_files : SUBSET PathsOf(CSPS_PATH_OPTIONS),
                 pay_files : SUBSET PathsOf(PAY_PATH_OPTIONS),
                 cpi_status : {200, 503}]
    /\ pc = "load_csps"
    /\ ret = [raised |-> FALSE, position |-> 1, tried |-> <<>>, stdout |-> <<>>,
              df_csps |-> None, df_pay |-> None]
    /\ df = {} /\ pay = {} /\ csps_pivot = {} /\ pay_cut = {} /\ joined = {}

LoadCspsPath ==
    /\ pc = "load_csps"
    /\ LET t == TryPath(CSPS_PATH_OPTIONS, args.csps_files, ret.position,
                        "Loaded data")
       IN /\ ret' = [ret EXCEPT !.df_csps = t.table,
                                !.tried = Append(@, CSPS_PATH_OPTIONS[ret.position]),
                                !.stdout = Append(@, t.notice),
                                !.position = IF t.next = 0 THEN 1 ELSE t.next]
          /\ pc' = IF t.next = 0 THEN "load_pay" ELSE "load_csps"
    /\ UNCHANGED <<df, args, scriptVars>>

LoadPayPath ==
    /\ pc = "load_pay"
    /\ LET t == TryPath(PAY_PATH_OPTIONS, args.pay_files, ret.position,
                        "Loaded pay data")
       IN /\ ret' = [ret EXCEPT !.df_pay = t.table,
                                !.tried = Append(@, PAY_PATH_OPTIONS[ret.position]),
                                !.stdout = Append(@, t.notice),
                                !.position = IF t.next = 0 THEN 1 ELSE t.next]
          /\ pc' = IF t.next = 0 THEN "fetch_cpi" ELSE "load_pay"
    /\ UNCHANGED <<df, args, scriptVars>>

(* requests.get and response.raise_for_status() *)
FetchCpi ==
    /\ pc = "fetch_cpi"
    /\ IF args.cpi_status = 200
       THEN /\ ret' = [ret EXCEPT !.stdout = Append(@, "Loaded CPI data from ONS API")]
            /\ pc' = "check_csps"
       ELSE /\ ret' = [ret EXCEPT !.raised = TRUE] @@ [error |-> "HTTPError"]
            /\ pc' = "failed"
    /\ UNCHANGED <<df, args, scriptVars>>

(* utils.check_csps_data(df_csps, ...): the first read of df_csps. *)
ReadDfCsps ==
    /\ pc = "check_csps"
    /\ IF IsNone(ret.df_csps)
       THEN /\ ret' = [ret EXCEPT !.raised = TRUE]
                          @@ [error |-> "NameError",
                              message |-> "name 'df_csps' is not defined"]
            /\ pc' = "failed"
       ELSE ret' = ret /\ pc' = "check_pay"
    /\ UNCHANGED <<df, args, scriptVars>>

(* The first read of df_pay, in the check of the pay table. *)
ReadDfPay ==
    /\ pc = "check_pay"
    /\ IF IsNone(ret.df_pay)
       THEN /\ ret' = [ret EXCEPT !.raised = TRUE]
                          @@ [error |-> "NameError",
                              message |-> "name 'df_pay' is not defined"]
            /\ pc' = "failed"
       ELSE ret' = ret /\ pc' = "loaded"
    /\ UNCHANGED <<df, args, scriptVars>>

NextLoad == LoadCspsPath \/ LoadPayPath \/ FetchCpi \/ ReadDfCsps \/ ReadDfPay

SpecLoad == InitLoad /\ [][NextLoad]_vars

----------------------------------------------------------------------------
(* Properties of the load step, checked under SpecLoad *)

Loading == args.function = "load"

(* The paths of the survey file tried so far. *)
CspsTried == {i \in DOMAIN CSPS_PATH_OPTIONS :
                \E k \in DOMAIN ret.tried : ret.tried[k] = CSPS_PATH_OPTIONS[i]}

(* The paths are tried in list order, the first that has the file is used  *)
(* and none after it is tried.                                             *)
OrderedProbe ==
    (Loading /\ pc # "load_csps") =>
        /\ \A i \in CspsTried : \A k \in 1..(i - 1) :
                k \in CspsTried /\ CSPS_PATH_OPTIONS[k] \notin args.csps_files
        /\ ~IsNone(ret.df_csps) =>
                /\ Get(ret.df_csps) \in args.csps_files
                /\ \A i \in CspsTried :
                      CSPS_PATH_OPTIONS[i] \in args.csps_files
                          => Get(ret.df_csps) = CSPS_PATH_OPTIONS[i]
        /\ args.csps_files # {} => ~IsNone(ret.df_csps)

(* C26: the paths are tried in order and the first that has the file is    *)
(* used; when no path has the survey file, the run has stopped at the load *)
(* step with an error for the missing file, and goes no further.           *)
C26_ProbeEndsInTerminalError ==
    /\ OrderedProbe
    /\ (Loading /\ pc # "load_csps" /\ args.csps_files = {}) =>
          /\ pc = "failed"
          /\ ret.raised
          /\ ret.error = "FileNotFoundError"

----------------------------------------------------------------------------
(* The rows filter_pivot_data pivots, checked under Spec *)

Included(o) == ~IsNone(args.include_orgs) /\ o \in Get(args.include_orgs)

(* C27: the rows the call filters down to, and pivots when it returns, are *)
(* the rows of the input that pass every filter given: the year filter,    *)
(* the type filter or the include list, the organisation filter or the     *)
(* include list, and the exclude list.  A row of a year outside the year   *)
(* filter is never among them, included organisation or not, and without a *)
(* type or organisation filter the include list changes nothing.           *)
C27_PivotedRowsAreTheConjunction ==
    Called =>
        /\ ret.df_filtered = {r \in df : Survives(r)}
        /\ ~ret.raised =>
              ret.df_pivot = pivot_table({r \in df : Survives(r)}, SelectedIndex)
        /\ \A r \in df :
              (~IsNone(args.year_filter) /\ r["Year"] \notin Get(args.year_filter))
                  => r \notin ret.df_filtered
        /\ (IsNone(args.organisation_type_filter) /\ IsNone(args.organisation_filter))
              => ret = filter_pivot_data(df, [args EXCEPT !.include_orgs = None])

C27_Witness ==
    /\ Called /\ ~ret.raised
    /\ ~IsNone(args.year_filter) /\ ~IsNone(args.organisation_type_filter)
    /\ \E r \in df :
          /\ Included(r["Organisation"])
          /\ r["Year"] \notin Get(args.year_filter)
          /\ r \notin ret.df_filtered
    /\ \E r \in ret.df_filtered :
          /\ Included(r["Organisation"])
          /\ r["Organisation type"] \notin Get(args.organisation_type_filter)

----------------------------------------------------------------------------
(* Specification SpecValidated: a raw survey table is checked by           *)
(* check_csps_data, cleaned by edit_csps_data with the same drop lists and *)
(* year bounds, and pivoted for the median benchmark, as analyse_pay.py    *)
(* does for its time series.                                               *)

ValidatedSampleRows ==
    {EditSurveyRow(section, y, CSPS_MEDIAN_ORGANISATION_NAME, v) :
        section \in {"Employee Engagement Index", "Theme scores", "Response rate"},
        y \in Years, v \in {NaN, Num(70)}}
    \cup {EditSurveyRow(section, y, "OrgA", Num(70)) :
            section \in {"Employee Engagement Index", "Theme scores"}, y \in Years}
    \cup {EditSurveyRow("Employee Engagement Index", y, CSPS_MEAN_ORGANISATION_NAME,
                        Num(70)) : y \in Years}

ValidatedArgs ==
    [function : {"validated_median_series"},
     csps_min_year : Years,
     csps_max_year : {2024},
     csps_mean_min_year : {2024},
     dept_groups_to_drop : {{}},
     orgs_to_drop : {{}, {"OrgA"}},
     dept_only_conditions :
        [organisation_type_filter : {{}}, include_orgs : {{}}, exclude_orgs : {{}}],
     csps_median_organisation_name : {CSPS_MEDIAN_ORGANISATION_NAME},
     csps_mean_organisation_name : {CSPS_MEAN_ORGANISATION_NAME},
     eei_label : {EEI_LABEL},
     ts_labels : {{"Pay and benefits"}}]

InitValidated ==
    /\ df \in TablesFrom(ValidatedSampleRows, MaxCheckRows)
    /\ args \in ValidatedArgs
    /\ pc = "check"
    /\ ret = NoReturn
    /\ pay = {} /\ csps_pivot = {} /\ pay_cut = {} /\ joined = {}

ValidatedCheck ==
    /\ pc = "check"
    /\ ret' = check_csps_data(df, args)
    /\ pc' = IF ret'.raised THEN "rejected" ELSE "edit"
    /\ UNCHANGED <<df, args, scriptVars>>

ValidatedEdit ==
    /\ pc = "edit"
    /\ ret' = edit_csps_data(df, [dept_groups_to_drop |-> args.dept_groups_to_drop,
                                  orgs_to_drop |-> args.orgs_to_drop,
                                  min_year |-> Some(args.csps_min_year),
                                  max_year |-> Some(args.csps_max_year)])
    /\ pc' = IF ret'.raised THEN "failed" ELSE "pivot"
    /\ UNCHANGED <<df, args, scriptVars>>

ValidatedPivot ==
    /\ pc = "pivot"
    /\ LET r == CspsCut(RowsOf(ret.df_processed), "median")
       IN /\ ret' = r
          /\ IF r.raised
             THEN pc' = "failed" /\ UNCHANGED csps_pivot
             ELSE pc' = "done" /\ csps_pivot' = WideRows(r.df_pivot)
    /\ UNCHANGED <<df, args, pay, pay_cut, joined>>

NextValidated == ValidatedCheck \/ ValidatedEdit \/ ValidatedPivot

SpecValidated == InitValidated /\ [][NextValidated]_vars

----------------------------------------------------------------------------
(* Properties of the validated median series, checked under SpecValidated *)

(* The pivoted table has a row for the year with a value for the EEI and   *)
(* for every theme score.                                                  *)
CompleteIn(y) ==
    \E x \in csps_pivot :
        /\ x.row["Year"] = y
        /\ \A l \in {args.eei_label} \cup args.ts_labels :
              l \in DOMAIN x.row /\ ~isna(x.row[l])

(* C28: once check_csps_data has passed, the cleaning and the pivot for    *)
(* the median benchmark end with a table that has, for every year of the   *)
(* checked range, a row with a value for the EEI and every theme score.    *)
C28_ValidatedMedianSeriesComplete ==
    (args.function = "validated_median_series" /\ pc \in {"failed", "done"}) =>
        /\ pc = "done"
        /\ \A y \in YearRange(args.csps_min_year, args.csps_max_year) : CompleteIn(y)

(* A validated table whose median series is complete. *)
ValidatedComplete ==
    /\ args.function = "validated_median_series" /\ pc = "done"
    /\ \A y \in YearRange(args.csps_min_year, args.csps_max_year) : CompleteIn(y)

----------------------------------------------------------------------------
(* Specification SpecPivotFit: a cleaned survey table is pivoted for 2024  *)
(* by filter_pivot_data and the regressions are fitted on the result, as   *)
(* analyse_theme_scores.py does.                                           *)

PivotFitRows ==
    {SurveyRow(o, "Ministerial department", 2024, l, v) :
        o \in Organisations, l \in Labels, v \in Values}

PivotFitArgs ==
    [function : {"pivot_fit"},
     year_filter : {Some({2024})},
     organisation_type_filter : {None},
     organisation_filter : {None},
     exclude_orgs : {None, Some({CSPS_MEDIAN_ORGANISATION_NAME})},
     include_orgs : {None},
     preserve_columns : {None},
     eei_label : {EEI_LABEL},
     ts_labels : {<<"Pay and benefits">>},
     constant_skipped : BOOLEAN]

InitPivotFit ==
    /\ df \in TablesFrom(PivotFitRows, MaxCheckRows)
    /\ args \in PivotFitArgs
    /\ pc = "pivot"
    /\ ret = NoReturn
    /\ pay = {} /\ csps_pivot = {} /\ pay_cut = {} /\ joined = {}

PivotForFit ==
    /\ pc = "pivot"
    /\ ret' = filter_pivot_data(df, args)
    /\ IF ret'.raised
       THEN pc' = "failed" /\ UNCHANGED csps_pivot
       ELSE pc' = "fit" /\ csps_pivot' = RowsOf(WideRows(ret'.df_pivot))
    /\ UNCHANGED <<df, args, pay, pay_cut, joined>>

FitPivot ==
    /\ pc = "fit"
    /\ ret' = fit_eei_theme_regressions(csps_pivot, args)
    /\ pc' = "fitted"
    /\ UNCHANGED <<df, args, scriptVars>>

NextPivotFit == PivotForFit \/ FitPivot

SpecPivotFit == InitPivotFit /\ [][NextPivotFit]_vars

----------------------------------------------------------------------------
(* Properties of the pivot and its regressions, checked under SpecPivotFit *)

(* The filtered long table of the call. *)
LongTable == {r \in df : Survives(r)}

AllMissing(label) ==
    /\ \E r \in LongTable : r["Label"] = label
    /\ \A r \in LongTable : r["Label"] = label => isna(r["Value"])

(* C29: every Label of the filtered long table is a column of the pivoted  *)
(* table and every Organisation of it a row, also when all its Values are  *)
(* missing; the regressions over ts_labels then do not raise for an absent *)
(* column, and a theme whose Values are all missing gets an                *)
(* insufficient-data notice.                                               *)
C29_EveryLabelIsAColumn ==
    (args.function = "pivot_fit" /\ pc \in {"fit", "fitted"}) =>
        /\ \A r \in LongTable :
              /\ r["Label"] \in ColumnsOf(csps_pivot)
              /\ \E x \in csps_pivot : x["Organisation"] = r["Organisation"]
        /\ (/\ pc = "fitted"
            /\ \A l \in {args.eei_label} \cup {args.ts_labels[i] : i \in DOMAIN args.ts_labels} :
                  \E r \in LongTable : r["Label"] = l)
              => /\ ~(ret.raised /\ ret.error = "KeyError")
                 /\ \A i \in DOMAIN args.ts_labels :
                       AllMissing(args.ts_labels[i]) =>
                           /\ Len(ret.stdout) >= i
                           /\ ret.stdout[i].report \in InsufficientNotices

(* The regressions abort on a theme whose Values are all missing. *)
AllMissingThemeAborts ==
    /\ args.function = "pivot_fit" /\ pc = "fitted"
    /\ AllMissing("Pay and benefits")
    /\ ret.raised /\ ret.error = "KeyError" /\ ret.message = "Pay and benefits"

----------------------------------------------------------------------------
(* Specification SpecCross: the two cross-sections of analyse_pay.py on    *)
(* tables in which an organisation may have rows of either organisation    *)
(* type and several pay records.                                           *)

CrossOrganisationTypes == {"Ministerial department", "Non-ministerial department"}

CrossCspsRows ==
    {SurveyRow(o, t, 2024, EEI_LABEL, v) :
        o \in {"Department for Education group (including agencies)",
               "HM Revenue and Customs"},
        t \in CrossOrganisationTypes, v \in {Num(60), Num(70)}}

CrossPayRows ==
    {PayRow(o, t, 2025, v) :
        o \in {"Department for Education", "HM Revenue and Customs"},
        t \in CrossOrganisationTypes, v \in {NaN, Num(35000)}}

InitCross ==
    /\ df \in TablesFrom(CrossCspsRows, MaxRows)
    /\ pay \in TablesFrom(CrossPayRows, MaxRows)
    /\ args \in [analysis : CrossSections]
    /\ pc = "pivot"
    /\ ret = NoReturn
    /\ csps_pivot = {} /\ pay_cut = {} /\ joined = {}

SpecCross == InitCross /\ [][NextPay]_vars

----------------------------------------------------------------------------
(* Properties of the cross-sectional joins, checked under SpecCross *)

RowsOfOrganisation(rows, o) == {x \in rows : x.row["Organisation"] = o}

(* C30: a cross-sectional join made after a passed matching check has      *)
(* exactly one row for each organisation of the matched set.               *)
C30_OneRowPerOrganisation ==
    (pc = "done" /\ "analysis" \in DOMAIN args /\ args.analysis \in CrossSections) =>
        \A o \in CspsOrganisations \cup PayOrganisations :
            Cardinality(RowsOfOrganisation(joined, o)) = 1

(* With one row for each organisation on either side the join has one row *)
(* for each organisation.                                                  *)
UniqueSidesJoinOneRow ==
    (/\ pc = "done" /\ "analysis" \in DOMAIN args /\ args.analysis \in CrossSections
     /\ \A o \in CspsOrganisations : Cardinality(RowsOfOrganisation(csps_pivot, o)) = 1
     /\ \A o \in PayOrganisations : Cardinality(RowsOfOrganisation(pay_cut, o)) = 1)
        => \A o \in CspsOrganisations \cup PayOrganisations :
              Cardinality(RowsOfOrganisation(joined, o)) = 1

(* An organisation with survey rows of two organisation types is joined    *)
(* twice.                                                                  *)
TwoTypesJoinedTwice ==
    /\ pc = "done" /\ "analysis" \in DOMAIN args /\ args.analysis = "organisation"
    /\ Cardinality(pay_cut) = 1
    /\ Cardinality(joined) = 2

----------------------------------------------------------------------------
(* Specification SpecFrame: the calls of the four table functions, each on *)
(* the inputs of its own specification.                                    *)

InitFrame == InitEdit \/ Init \/ InitFit

NextFrame == NextEdit \/ Next \/ NextFit

SpecFrame == InitFrame /\ [][NextFrame]_vars

====
